---- MODULE Spec2Model ----
(***************************************************************************)
(* A model of codebraid's Pandoc converter: the AST walker, the code-chunk *)
(* option defaults, the source-trace matcher, the freeze/thaw transform of *)
(* raw nodes and the output splicer                                        *)
(* (src/codebraid/converters/pandoc.py, src/codebraid/converters/base.py). *)
(*                                                                         *)
(* The AST is a heap of Python objects.  Dicts (nodes) and lists have an   *)
(* identity, the positive integer that names them:                         *)
(*   nodes[n] = [t |-> kind, c |-> contents, p |-> payload]                *)
(*     c = 0     the node has no 'c' key                                   *)
(*     c = -1    'c' is a string                                           *)
(*     c = -2    'c' is a list that holds only strings and lists of        *)
(*               strings ([attr, code] of Code/CodeBlock, [format, text]   *)
(*               of RawInline/RawBlock): walking it yields nothing; the    *)
(*               list itself is p, <<attr, code>> with                     *)
(*               attr = <<id, classes, kvpairs>>, or <<format, text>>      *)
(*     c > 0     'c' is the list object with that id                       *)
(*   lists[l] = the sequence of the list's items                           *)
(*     item > 0  the object (node or list) with that id                    *)
(*     item = 0  a scalar (string, number)                                 *)
(*     item = -1 a dict without a 't' key                                  *)
(* A negative node id -e names the pseudonode that walk_node_list creates  *)
(* for the term of the definition-list item whose list object is e.        *)
(***************************************************************************)
EXTENDS Integers, Sequences, FiniteSets, TLC

VARIABLES
    \* ---- the AST heap, and the parse that builds it
    nodes,          \* node id -> [t, c, p]
    lists,          \* list id -> sequence of items
    lrole,          \* list id -> "plain" | "defitems" (the contents of a DefinitionList)
    open,           \* the lists the parse has not closed yet, innermost last
    nextId,         \* the next unused object id
    \* ---- one call of _walk_ast
    walked,         \* the tuples the generator yielded, in order
    wfilter,        \* its type_filter
    wskip,          \* its skip_note_contents
    wdone,          \* whether the walk has run
    \* ---- freezing and thawing raw nodes
    fstage,         \* node id -> "raw" | "frozen" | "thawed"
    forig,          \* node id -> the node's kind and contents before it was frozen
    \* ---- chunk options (base.py): module-level dict objects, and the chunks made
    cb_default_show_notebook,         \* the OrderedDict object _cb_default_show_notebook
    cb_default_show_inline_notebook,  \* the OrderedDict object _cb_default_show_inline_notebook
    made,           \* the CodeChunk objects constructed so far, in order
    \* ---- the converter: chunk extraction and output splicing
    code_chunks,    \* self.code_chunks: the PandocCodeChunk objects, in discovery order
    sphase,         \* "parse" | "chunks" (after _extract_code_chunks) | "error"
    order,          \* the update_parent_node calls made so far, in order
    \* ---- the sources, and the source-trace matcher of _load_and_process_initial_ast
    mode,           \* "single" | "concat" | "file_scope"
    src_lines,      \* per source, the number of lines written so far
    text,           \* every '.cb.' occurrence of the sources, in text order
    tree,           \* code_raw_node_tuples of the whole input, in tree order
    mphase,         \* "parse" | "match" | "raw" | "called" | "extracted" |
                    \* "finished" | "error"
    call,           \* the source the running call was made for (0: all, or none yet)
    branch,         \* "equal" | "differing": which branch the running call took
    cursor,         \* the position of the running loop
    chunk_iter,     \* how many chunks code_chunk_iter has handed out
    sources_cb,     \* the occurrence stack, its top last
    skipped,        \* the skip buffer
    source_names_stack,
    matched,        \* the occurrences a chunk or a content marker consumed
    purged,         \* the occurrences dropped at an end-of-file marker
    exhausted,      \* whether a pop met the empty stack
    did_skip,       \* whether an occurrence was skipped and pushed back
    \* ---- one call of _find_cb_command
    find_text,      \* the text, a sequence of characters
    find_pieces,    \* how many pieces the text was written in
    find_called,    \* whether _find_cb_command has run on the text
    find_results    \* the list it returned

heapVars == <<nodes, lists, lrole, open, nextId>>
walkVars == <<walked, wfilter, wskip, wdone>>
freezeVars == <<fstage, forig>>
optVars == <<cb_default_show_notebook, cb_default_show_inline_notebook, made>>
spliceVars == <<code_chunks, sphase, order>>
docVars == <<mode, src_lines, text, tree>>
matchVars == <<mphase, call, branch, cursor, chunk_iter, sources_cb, skipped,
               source_names_stack, matched, purged, exhausted, did_skip>>
findVars == <<find_text, find_pieces, find_called, find_results>>
vars == <<nodes, lists, lrole, open, nextId, walked, wfilter, wskip, wdone,
          fstage, forig,
          cb_default_show_notebook, cb_default_show_inline_notebook, made,
          code_chunks, sphase, order,
          mode, src_lines, text, tree, mphase, call, branch, cursor, chunk_iter,
          sources_cb, skipped, source_names_stack, matched, purged, exhausted,
          did_skip, find_text, find_pieces, find_called, find_results>>

\* ------------------------------------------------------------------ bounds
\* The most items (nodes, nested lists, scalars, definition-list items) in a tree.
MaxItems == 4

\* ------------------------------------------------------------ the AST heap
\* ast['blocks'] is the list with id 1; its owner, the ast dict, is object 0.
AstRoot == 0
RootList == 1

ContainerKinds == {"Para", "Note", "DefinitionList"}
CodeKinds == {"Code", "CodeBlock"}
RawKinds == {"RawInline", "RawBlock"}

\* The layout of a new node's contents (pandoc_nodes): a fresh list for the
\* kinds that hold nodes, the attr/string payload for code and raw nodes, a
\* string for Str, nothing for Space.
ContentsOf(t, newList) ==
    IF t \in ContainerKinds THEN newList
    ELSE IF t \in CodeKinds \cup RawKinds THEN -2
    ELSE IF t = "Str" THEN -1
    ELSE 0

\* [attr, code] of a code node without id, classes or key-value pairs; no
\* payload for the other kinds.
PlainPayload(t) ==
    IF t \in CodeKinds THEN << <<"", <<>>, <<>> >>, "x" >> ELSE <<>>

IsNode(obj) == obj \in DOMAIN nodes
IsList(obj) == obj \in DOMAIN lists

\* The number of items the parse has put in lists so far: nodes, nested
\* lists, scalars and definition-list items.
ItemCount ==
    Cardinality(UNION {{<<l, i>> : i \in 1..Len(lists[l])} :
                       l \in {m \in DOMAIN lists : lrole[m] \in {"plain", "defitems"}}})

Top == open[Len(open)]

HeapInit ==
    /\ nodes = <<>>
    /\ lists = (RootList :> <<>>)
    /\ lrole = (RootList :> "plain")
    /\ open = <<RootList>>
    /\ nextId = 2

\* The parse appends a node of kind t to the innermost open list; a
\* container's (empty) contents list becomes the innermost open list.
AddNode(t, p) ==
    /\ lrole[Top] = "plain"
    /\ ItemCount < MaxItems
    /\ LET n == nextId
           l == nextId + 1
           c == ContentsOf(t, l)
       IN /\ nodes' = nodes @@ (n :> [t |-> t, c |-> c, p |-> p])
          /\ IF c > 0
             THEN /\ lists' = [lists EXCEPT ![Top] = Append(@, n)] @@ (l :> <<>>)
                  /\ lrole' = lrole @@
                        (l :> IF t = "DefinitionList" THEN "defitems" ELSE "plain")
                  /\ open' = Append(open, l)
                  /\ nextId' = nextId + 2
             ELSE /\ lists' = [lists EXCEPT ![Top] = Append(@, n)]
                  /\ UNCHANGED <<lrole, open>>
                  /\ nextId' = nextId + 1

\* A list nested directly in a list (the items of a BulletList, the content
\* list after an attr).
AddNestedList ==
    /\ lrole[Top] = "plain"
    /\ ItemCount < MaxItems
    /\ lists' = [lists EXCEPT ![Top] = Append(@, nextId)] @@ (nextId :> <<>>)
    /\ lrole' = lrole @@ (nextId :> "plain")
    /\ open' = Append(open, nextId)
    /\ nextId' = nextId + 1
    /\ UNCHANGED nodes

\* A scalar (v = 0) or a dict without 't' (v = -1) in a list.
AddOther(v) ==
    /\ lrole[Top] = "plain"
    /\ ItemCount < MaxItems
    /\ lists' = [lists EXCEPT ![Top] = Append(@, v)]
    /\ UNCHANGED <<nodes, lrole, open, nextId>>

\* One item [term, definition] of a DefinitionList: term is a list of
\* inlines, definition a list of lists of blocks (here one list of blocks).
AddDefItem ==
    /\ lrole[Top] = "defitems"
    /\ ItemCount < MaxItems
    /\ LET e == nextId
           term == nextId + 1
           defn == nextId + 2
           blocks == nextId + 3
       IN /\ lists' = [lists EXCEPT ![Top] = Append(@, e)] @@
                        (e :> <<term, defn>>) @@ (term :> <<>>) @@
                        (defn :> <<blocks>>) @@ (blocks :> <<>>)
          /\ lrole' = lrole @@ (e :> "elem") @@ (term :> "plain") @@
                        (defn :> "defs") @@ (blocks :> "plain")
          /\ open' = open \o <<blocks, term>>
          /\ nextId' = nextId + 4
    /\ UNCHANGED nodes

CloseList ==
    /\ Len(open) > 1
    /\ open' = SubSeq(open, 1, Len(open) - 1)
    /\ UNCHANGED <<nodes, lists, lrole, nextId>>

\* --------------------------------------------------------- walk_node_list
\* type_filter=None
NoFilter == {"<None>"}
\* pandoc_code_raw_nodes
pandoc_code_raw_nodes == CodeKinds \cup RawKinds

PassesNoNone(type_filter, node_type) == node_type \in type_filter
\* `type_filter is None or node_type in type_filter`
Passes(type_filter, node_type) ==
    type_filter = NoFilter \/ node_type \in type_filter

IsNestedListNever(obj) == FALSE
\* `elif isinstance(obj, list)`
IsNestedList(obj) == IsList(obj)

\* A tuple that counts the index from 1
NodeTupleFromOne(node, parent_node, node_list, index, in_note) ==
    [node |-> node, parent_node |-> parent_node, parent_node_list |-> node_list,
     parent_node_list_index |-> index + 1, in_note |-> in_note]

NodeTuple(node, parent_node, node_list, index, in_note) ==
    [node |-> node, parent_node |-> parent_node, parent_node_list |-> node_list,
     parent_node_list_index |-> index, in_note |-> in_note]

RECURSIVE WalkLoop(_, _, _, _, _, _)
RECURSIVE WalkDefinitionList(_, _, _, _, _, _)

\* The body of `for index, obj in enumerate(node_list)` from `index` on
\* (0-based, as enumerate counts), with the loop's current value of the local
\* in_note, which an iteration over a Note sets and later iterations keep.
WalkLoop(node_list, index, parent_node, type_filter, skip_note_contents, in_note) ==
    IF index >= Len(lists[node_list]) THEN <<>>
    ELSE
    LET obj == lists[node_list][index + 1]
        rest(note) == WalkLoop(node_list, index + 1, parent_node, type_filter,
                               skip_note_contents, note)
    IN
    IF IsNode(obj) THEN
        LET node_type == nodes[obj].t
            obj_contents == nodes[obj].c
            yielded == IF Passes(type_filter, node_type)
                       THEN <<NodeTuple(obj, parent_node, node_list, index, in_note)>>
                       ELSE <<>>
        IN
        IF obj_contents > 0 THEN
            IF node_type = "Note" THEN
                IF skip_note_contents
                THEN yielded \o rest(in_note)
                ELSE yielded
                     \o WalkLoop(obj_contents, 0, obj, type_filter, skip_note_contents, TRUE)
                     \o rest(TRUE)
            ELSE IF node_type # "DefinitionList" THEN
                yielded
                \o WalkLoop(obj_contents, 0, obj, type_filter, skip_note_contents, in_note)
                \o rest(in_note)
            ELSE
                yielded
                \o WalkDefinitionList(obj, 1, obj_contents, type_filter,
                                      skip_note_contents, in_note)
                \o rest(in_note)
        ELSE
            \* no 'c', a string, or a list without node objects in it
            yielded \o rest(in_note)
    ELSE IF IsNestedList(obj) THEN
        WalkLoop(obj, 0, parent_node, type_filter, skip_note_contents, in_note)
        \o rest(in_note)
    ELSE
        rest(in_note)

\* `for elem in obj_contents` of a DefinitionList, from its k-th item on: the
\* term wrapped in a fresh Plain pseudonode, then the term, then the
\* definition.
WalkDefinitionList(obj, k, obj_contents, type_filter, skip_note_contents, in_note) ==
    IF k > Len(lists[obj_contents]) THEN <<>>
    ELSE
    LET elem == lists[obj_contents][k]
        term == lists[elem][1]
        definition == lists[elem][2]
        pseudonode == -elem
    IN (IF Passes(type_filter, "Plain")
        THEN <<NodeTuple(pseudonode, obj, elem, 0, in_note)>>
        ELSE <<>>)
       \o WalkLoop(term, 0, pseudonode, type_filter, skip_note_contents, in_note)
       \o WalkLoop(definition, 0, obj, type_filter, skip_note_contents, in_note)
       \o WalkDefinitionList(obj, k + 1, obj_contents, type_filter,
                             skip_note_contents, in_note)

walk_node_list(node_list, parent_node, type_filter, skip_note_contents, in_note) ==
    WalkLoop(node_list, 0, parent_node, type_filter, skip_note_contents, in_note)

\* PandocConverter._walk_ast
WalkAstTuples(type_filter, skip_note_contents) ==
    walk_node_list(RootList, AstRoot, type_filter, skip_note_contents, FALSE)

\* The kind of a yielded node: a pseudonode is {'t': 'Plain', ...}.
KindOf(n) == IF n < 0 THEN "Plain" ELSE nodes[n].t

WalkFilters == {NoFilter, pandoc_code_raw_nodes, {"Plain", "Note"}}

WalkInit ==
    /\ walked = <<>>
    /\ wfilter = NoFilter
    /\ wskip = FALSE
    /\ wdone = FALSE

\* list(self._walk_ast(ast, type_filter=..., skip_note_contents=...))
WalkAst(type_filter, skip_note_contents) ==
    /\ ~wdone
    /\ Len(open) = 1
    /\ walked' = WalkAstTuples(type_filter, skip_note_contents)
    /\ wfilter' = type_filter
    /\ wskip' = skip_note_contents
    /\ wdone' = TRUE
    /\ UNCHANGED heapVars

\* ---------------------------------------------------- claims on the walker
RECURSIVE NodesUnderItem(_)
RECURSIVE NodesUnderList(_)
\* The tagged nodes reachable from an item through nested lists and node
\* contents (the item itself included when it is a node).
NodesUnderItem(x) ==
    IF IsNode(x)
    THEN {x} \cup (IF nodes[x].c > 0 THEN NodesUnderList(nodes[x].c) ELSE {})
    ELSE IF IsList(x) THEN NodesUnderList(x)
    ELSE {}
NodesUnderList(l) ==
    UNION {NodesUnderItem(lists[l][i]) : i \in 1..Len(lists[l])}

PositionsOf(n) == {i \in 1..Len(walked) : walked[i].node = n}
Pos(n) == CHOOSE i \in PositionsOf(n) : TRUE

\* Whether node n lies inside the contents of a Note node, at any depth.
InsideNote(n) ==
    \E m \in DOMAIN nodes :
        nodes[m].t = "Note" /\ nodes[m].c > 0 /\ n \in NodesUnderList(nodes[m].c)

FullWalkDone == wdone /\ wfilter = NoFilter /\ ~wskip

\* C8: without a type filter and without skipping notes, walk_node_list
\* yields every tagged node reachable from the node list exactly once and no
\* other node of the tree, each node before its descendants and each item's
\* nodes before those of every later item of the same list (pre-order).
C8_WalkPreOrder ==
    FullWalkDone =>
        /\ \A n \in NodesUnderList(RootList) : Cardinality(PositionsOf(n)) = 1
        /\ \A i \in 1..Len(walked) :
              walked[i].node > 0 => walked[i].node \in NodesUnderList(RootList)
        /\ \A n \in DOMAIN nodes :
              nodes[n].c > 0 =>
                  \A d \in NodesUnderList(nodes[n].c) : Pos(n) < Pos(d)
        /\ \A l \in DOMAIN lists : \A i, j \in 1..Len(lists[l]) :
              i < j =>
                  \A a \in NodesUnderItem(lists[l][i]) :
                      \A b \in NodesUnderItem(lists[l][j]) : Pos(a) < Pos(b)

\* A full walk of a tree in which a node with a child is followed by a
\* later sibling, and some node sits in a nested list.
C8_Witness ==
    /\ FullWalkDone
    /\ \E l \in DOMAIN lists : \E i, j \in 1..Len(lists[l]) :
          /\ i < j
          /\ IsNode(lists[l][i]) /\ IsNode(lists[l][j])
          /\ NodesUnderItem(lists[l][i]) # {lists[l][i]}

\* C9: with a type filter the walk yields exactly the tuples of the
\* unfiltered walk whose node kind is in the filter, in the same order and
\* with the same parent, list, index and in-note values.
C9_FilterIsRestriction ==
    (wdone /\ wfilter # NoFilter) =>
        walked = SelectSeq(WalkAstTuples(NoFilter, wskip),
                           LAMBDA tup : KindOf(tup.node) \in wfilter)

\* A filtered walk that yields a node lying inside a node the filter
\* leaves out.
C9_Witness ==
    /\ wdone /\ wfilter # NoFilter
    /\ \E i \in 1..Len(walked) :
          /\ walked[i].parent_node > 0
          /\ nodes[walked[i].parent_node].t \notin wfilter

\* C10 (as claimed): the in-note flag of a yielded tuple is true exactly when
\* the node lies inside the contents of a Note.
C10_InNoteExact ==
    wdone =>
        \A i \in 1..Len(walked) :
            walked[i].in_note <=>
                InsideNote(IF walked[i].node > 0 THEN walked[i].node
                           ELSE walked[i].parent_node)

\* list[index], for the 0-based index of Python
ItemAt(l, index) == lists[l][index + 1]

RECURSIVE Encloser(_)
\* The nearest node around list l: the node whose contents l is, the
\* pseudonode of a definition term, or else the nearest node around the list
\* that holds l; the ast dict for ast['blocks'].
Encloser(l) ==
    IF l = RootList THEN AstRoot
    ELSE IF \E n \in DOMAIN nodes : nodes[n].c = l
    THEN CHOOSE n \in DOMAIN nodes : nodes[n].c = l
    ELSE IF \E e \in DOMAIN lists : lrole[e] = "elem" /\ lists[e][1] = l
    THEN -(CHOOSE e \in DOMAIN lists : lrole[e] = "elem" /\ lists[e][1] = l)
    ELSE Encloser(CHOOSE m \in DOMAIN lists :
                      \E i \in 1..Len(lists[m]) : lists[m][i] = l)

InList(tup) ==
    /\ IsList(tup.parent_node_list)
    /\ tup.parent_node_list_index \in 0..(Len(lists[tup.parent_node_list]) - 1)

\* C25 (as claimed): for every tuple the walk yields, the element of the
\* containing list at the index is the yielded node itself, and the parent
\* is the nearest node around the containing list.
C25_BackReferencesExact ==
    wdone =>
        \A k \in 1..Len(walked) :
            /\ InList(walked[k])
            /\ ItemAt(walked[k].parent_node_list, walked[k].parent_node_list_index)
                  = walked[k].node
            /\ walked[k].parent_node = Encloser(walked[k].parent_node_list)

\* C25 (amended): the element at the index is the yielded node itself for
\* every node of the tree; for the synthetic Plain node of a definition term
\* the containing list is the [term, definition] item, the index is 0 and
\* the element there is the term list, which is the synthetic node's
\* contents.  The parent is the nearest node around the containing list
\* (for the nodes of a term, the synthetic node).
C25_BackReferences ==
    wdone =>
        \A k \in 1..Len(walked) :
            LET tup == walked[k]
            IN /\ InList(tup)
               /\ tup.parent_node = Encloser(tup.parent_node_list)
               /\ IF tup.node > 0
                  THEN ItemAt(tup.parent_node_list, tup.parent_node_list_index) = tup.node
                  ELSE /\ lrole[tup.parent_node_list] = "elem"
                       /\ tup.node = -tup.parent_node_list
                       /\ tup.parent_node_list_index = 0
                       /\ IsList(ItemAt(tup.parent_node_list, 0))
                       /\ nodes[tup.parent_node].t = "DefinitionList"

\* Reached: a walk that yields the synthetic node of a definition term, a
\* node of that term, and a node of the definition, which lies in nested
\* lists.
C25_Witness ==
    /\ wdone
    /\ \E a, b, c \in 1..Len(walked) :
          /\ walked[a].node < 0
          /\ walked[b].parent_node = walked[a].node
          /\ walked[c].node > 0
          /\ walked[c].parent_node = walked[a].parent_node
          /\ lrole[walked[c].parent_node_list] = "plain"
          /\ walked[c].parent_node_list # nodes[walked[c].parent_node].c

\* ------------------------------------------------- freeze and thaw raw nodes
\* A translation that knows inline raw nodes only
FreezeTypeInlineOnly(t) == IF t = "RawInline" THEN "Code" ELSE t
\* type_translation_dict of _freeze_raw_node
FreezeType(t) == IF t = "RawBlock" THEN "CodeBlock" ELSE "Code"
\* type_translation_dict of _thaw_raw_node
ThawType(t) == IF t = "CodeBlock" THEN "RawBlock" ELSE "RawInline"

\* PandocConverter._freeze_raw_node: the node dict is changed in place.
\*   raw_format, raw_content = node['c']
\*   node['c'] = [['', ['codebraid--temp'], [['format', raw_format]]], raw_content]
FreezeRawNode(node) ==
    LET raw_format == node.p[1]
        raw_content == node.p[2]
    IN [node EXCEPT
          !.t = FreezeType(node.t),
          !.p = << <<"", <<"codebraid--temp">>, << <<"format", raw_format>> >> >>,
                   raw_content >>]

ThawRawNodeKey(node) ==
    [node EXCEPT !.t = ThawType(node.t),
                 !.p = <<node.p[1][3][1][1], node.p[2]>>]
\* PandocConverter._thaw_raw_node:
\*   node['c'] = [node['c'][0][2][0][1], node['c'][1]]
ThawRawNode(node) ==
    [node EXCEPT !.t = ThawType(node.t),
                 !.p = <<node.p[1][3][1][2], node.p[2]>>]

\* `node_type in ('Code', 'CodeBlock') and 'codebraid--temp' in node['c'][0][1]`
IsFrozen(node) ==
    /\ node.t \in {"Code", "CodeBlock"}
    /\ \E i \in 1..Len(node.p[1][2]) : node.p[1][2][i] = "codebraid--temp"

RawFormats == {"html", "tex", "HTML", ""}
RawTexts == {"", "<b>", "<!--codebraid.eof-->"}
MaxRaw == 2

FreezeInit ==
    /\ fstage = <<>>
    /\ forig = <<>>

\* A raw node of the loaded AST.
AddRawNode(t, format, content) ==
    /\ Cardinality(DOMAIN nodes) < MaxRaw
    /\ AddNode(t, <<format, content>>)
    /\ fstage' = fstage @@ (nextId :> "raw")
    /\ forig' = forig @@ (nextId :> nodes'[nextId])

\* A freeze that would put a new node object in the list in place of the
\* raw node, instead of changing the raw node
FreezeSubstitute(n) ==
    /\ fstage[n] = "raw"
    /\ nodes[n].t \in RawKinds
    /\ nodes' = nodes @@ (nextId :> FreezeRawNode(nodes[n]))
    /\ lists' = [l \in DOMAIN lists |->
                   [i \in 1..Len(lists[l]) |->
                       IF lists[l][i] = n THEN nextId ELSE lists[l][i]]]
    /\ nextId' = nextId + 1
    /\ fstage' = [fstage EXCEPT ![n] = "frozen"]
    /\ UNCHANGED <<lrole, open, forig>>

\* freeze_raw_node(node, '', 0)
Freeze(n) ==
    /\ fstage[n] = "raw"
    /\ nodes[n].t \in RawKinds
    /\ nodes' = [nodes EXCEPT ![n] = FreezeRawNode(@)]
    /\ fstage' = [fstage EXCEPT ![n] = "frozen"]
    /\ UNCHANGED <<lists, lrole, open, nextId, forig>>

\* thaw_raw_node(node) on a node that carries the reserved class
Thaw(n) ==
    /\ fstage[n] = "frozen"
    /\ IsFrozen(nodes[n])
    /\ nodes' = [nodes EXCEPT ![n] = ThawRawNode(@)]
    /\ fstage' = [fstage EXCEPT ![n] = "thawed"]
    /\ UNCHANGED <<lists, lrole, open, nextId, forig>>

\* str.lower() on the raw formats of the model
Lower(f) == IF f = "HTML" THEN "html" ELSE f

\* `node_format == 'html' and node_contents == '<!--codebraid.eof-->'`, with
\* node_format lowered
IsEofMarker(node) ==
    /\ node.t \in RawKinds
    /\ Lower(node.p[1]) = "html"
    /\ node.p[2] = "<!--codebraid.eof-->"

\* The nulling of an end-of-file marker node:
\*   node['t'] = 'Null'
\*   del node['c']
NullEofNode(node) == [node EXCEPT !.t = "Null", !.c = 0, !.p = <<>>]

\* The raw-node branch of the loops over code_raw_node_tuples when the
\* sources were concatenated, for an end-of-file marker
NullEof(n) ==
    /\ fstage[n] = "raw"
    /\ IsEofMarker(nodes[n])
    /\ nodes' = [nodes EXCEPT ![n] = NullEofNode(@)]
    /\ fstage' = [fstage EXCEPT ![n] = "nulled"]
    /\ UNCHANGED <<lists, lrole, open, nextId, forig>>

FreezeStep ==
    \/ \E t \in RawKinds, f \in RawFormats, x \in RawTexts : AddRawNode(t, f, x)
    \/ \E n \in DOMAIN fstage : Freeze(n)
    \/ \E n \in DOMAIN fstage : Thaw(n)
    \/ \E n \in DOMAIN fstage : NullEof(n)

\* C3: a raw node that was frozen and then thawed has its original kind,
\* format and content again, and carries no attr (so no reserved class): its
\* contents are again the two strings [format, text].
C3_ThawFreezeIdentity ==
    \A n \in DOMAIN fstage :
        fstage[n] = "thawed" =>
            /\ nodes[n].t = forig[n].t
            /\ nodes[n].c = forig[n].c
            /\ Len(nodes[n].p) = 2
            /\ nodes[n].p[1] = forig[n].p[1]
            /\ nodes[n].p[2] = forig[n].p[2]

\* A RawBlock and a RawInline, both frozen and thawed again.
C3_Witness ==
    /\ \E n \in DOMAIN fstage : fstage[n] = "thawed" /\ forig[n].t = "RawBlock"
    /\ \E n \in DOMAIN fstage : fstage[n] = "thawed" /\ forig[n].t = "RawInline"
                                 /\ forig[n].p[1] = ""

\* C11: node identity is preserved by the freeze/thaw transform.  A step
\* that freezes, thaws or nulls a node changes the kind and the contents of
\* that node object alone: every list holds the same objects at the same
\* indices as before (so the same length and the same other elements), no
\* node object is created, and every other node is as it was.
C11_NodeIdentityKept ==
    [][\A n \in DOMAIN fstage :
          (n \in DOMAIN fstage' /\ fstage'[n] # fstage[n]) =>
              /\ lists' = lists
              /\ DOMAIN nodes' = DOMAIN nodes
              /\ \A m \in DOMAIN nodes : m # n => nodes'[m] = nodes[m]
              /\ nodes'[n] # nodes[n]]_vars

\* Two nodes in one list, the first frozen and thawed, the second an
\* end-of-file marker that was nulled.
C11_Witness ==
    /\ Len(lists[RootList]) = 2
    /\ fstage[lists[RootList][1]] = "thawed"
    /\ fstage[lists[RootList][2]] = "nulled"
    /\ nodes[lists[RootList][2]].t = "Null"

\* ------------------------------------------------- chunk options (base.py)
\* Option values.  A Python value is a record [ty, s, n, toks]:
\*   None                 ty = "none"
\*   a bool               ty = "bool", s = "True" | "False"
\*   an int               ty = "int",  n = the number
\*   a str                ty = "str",  s = the string; for a `hide` or `show`
\*                        value, toks = value.replace(' ', '').split('+'):
\*                        channel names for hide, <<output, format>> for show
\*                        (format "" when the token has no ':')
\*   a list of str        ty = "list", toks = the strings
\*   an OrderedDict       ty = "dict", s = which object: "block" is
\*                        _cb_default_show_notebook, "inline" is
\*                        _cb_default_show_inline_notebook, "own" a dict of the
\*                        chunk's own, whose items are toks
NoneV == [ty |-> "none", s |-> "", n |-> 0, toks |-> <<>>]
BoolV(b) == [ty |-> "bool", s |-> IF b THEN "True" ELSE "False", n |-> 0, toks |-> <<>>]
IntV(i) == [ty |-> "int", s |-> "", n |-> i, toks |-> <<>>]
StrV(x) == [ty |-> "str", s |-> x, n |-> 0, toks |-> <<>>]
StrToksV(x, toks) == [ty |-> "str", s |-> x, n |-> 0, toks |-> toks]
ListV(toks) == [ty |-> "list", s |-> "", n |-> 0, toks |-> toks]
DictRefV(which) == [ty |-> "dict", s |-> which, n |-> 0, toks |-> <<>>]
OwnDictV(items) == [ty |-> "dict", s |-> "own", n |-> 0, toks |-> items]

\* options[key] = value
SetOpt(options, key, value) ==
    [k \in DOMAIN options \cup {key} |-> IF k = key THEN value ELSE options[k]]

\* _cb_default_options and _cb_default_inline_options: the 'show' entry is
\* the module-level OrderedDict object itself.
cb_default_options ==
    [first_number |-> StrV("next"), lang |-> NoneV, line_numbers |-> BoolV(TRUE),
     session |-> NoneV, show |-> DictRefV("block")]
cb_default_inline_options ==
    [lang |-> NoneV, session |-> NoneV, show |-> DictRefV("inline")]

CopyDefaultsShowOnly(inline) ==
    [show |-> DictRefV(IF inline THEN "inline" ELSE "block")]

\* dict.copy() of the default table: a new dict with the same value objects.
CopyDefaults(inline) ==
    IF inline THEN cb_default_inline_options ELSE cb_default_options

\* The state threaded through one CodeChunk.__init__: the chunk's
\* final_options, its error and warning lists, whether an exception was
\* raised, and the two module-level show dicts.
Warn(st, key) == [st EXCEPT !.source_warnings = Append(@, <<"Invalid", key>>)]

\* _cb_option_unknown
cb_option_unknown(st, key, value) ==
    [st EXCEPT !.source_errors = Append(@, <<"Unknown option", key>>)]

\* _cb_option_bool
cb_option_bool(st, key, value) ==
    IF value.ty = "bool" THEN [st EXCEPT !.options = SetOpt(@, key, value)]
    ELSE Warn(st, key)

\* _cb_option_str
cb_option_str(st, key, value) ==
    IF value.ty = "str" THEN [st EXCEPT !.options = SetOpt(@, key, value)]
    ELSE Warn(st, key)

cb_option_first_number_stores(st, key, value) ==
    [Warn(st, key) EXCEPT !.options = SetOpt(@, key, value)]

\* _cb_option_first_number
cb_option_first_number(st, key, value) ==
    IF (value.ty = "int" /\ value.n > 0) \/ (value.ty = "str" /\ value.s = "next")
    THEN [st EXCEPT !.options = SetOpt(@, key, value)]
    ELSE Warn(st, key)

\* dict.pop(v, None) for every v of hide_values, on a dict's items
PopAll(items, hide_values) ==
    SelectSeq(items, LAMBDA item : \A i \in 1..Len(hide_values) : hide_values[i] # item[1])

HideChannels == {"code", "stdout", "stderr", "expression"}

\* _cb_option_hide.  With value 'all' the last statement reads hide_values,
\* which was never bound: UnboundLocalError.  With options['show'] None the
\* pop is called on None: AttributeError.  Otherwise the pops act on the
\* dict object that options['show'] is, which is the module-level default
\* dict unless a `show` option replaced it before.
cb_option_hide(st, key, value) ==
    IF value.ty # "str" THEN Warn(st, key)
    ELSE IF value.s = "all"
    THEN [st EXCEPT !.options = SetOpt(@, "show", NoneV), !.raised = TRUE]
    ELSE
    LET hide_values == value.toks
        show == st.options["show"]
    IN IF ~(\A i \in 1..Len(hide_values) : hide_values[i] \in HideChannels)
       THEN Warn(st, key)
       ELSE IF show.ty = "none" THEN [st EXCEPT !.raised = TRUE]
       ELSE IF show.s = "block"
       THEN [st EXCEPT !.dflt = PopAll(@, hide_values),
                       !.options = SetOpt(@, key, ListV(hide_values))]
       ELSE IF show.s = "inline"
       THEN [st EXCEPT !.dflti = PopAll(@, hide_values),
                       !.options = SetOpt(@, key, ListV(hide_values))]
       ELSE [st EXCEPT !.options =
                SetOpt(SetOpt(@, "show", OwnDictV(PopAll(show.toks, hide_values))),
                       key, ListV(hide_values))]

\* _cb_option_label
cb_option_label(st, key, value) ==
    IF "label" \in DOMAIN st.options
    THEN [st EXCEPT !.source_warnings = Append(@, <<"Duplicate", key>>)]
    ELSE IF value.ty = "str" THEN [st EXCEPT !.options = SetOpt(@, "label", value)]
    ELSE Warn(st, key)

ShowFormats == {"verbatim", "verbatim_or_empty", "raw"}

HasKeyNever(items, output) == FALSE
\* `output in value_processed`, `key in options`
HasKey(items, output) == \E i \in 1..Len(items) : items[i][1] = output

RECURSIVE ParseShow(_, _, _, _, _)
\* The loop of _cb_option_show over the tokens from the i-th on:
\* acc = [value_processed, warnings]; every `continue` is preceded by one
\* warning.
ParseShow(toks, i, inline, key, acc) ==
    IF i > Len(toks) THEN acc
    ELSE
    LET output == toks[i][1]
        format == toks[i][2]
        skip == [acc EXCEPT !.warnings = Append(@, <<"Invalid", key>>)]
        put(f) == [acc EXCEPT !.value_processed = Append(@, <<output, f>>)]
        next ==
            IF HasKey(acc.value_processed, output)
            THEN [acc EXCEPT !.warnings = Append(@, <<"Duplicate", output>>)]
            ELSE IF output = "code"
            THEN IF format = "" THEN put("verbatim")
                 ELSE IF format # "verbatim" THEN skip ELSE put(format)
            ELSE IF output \in {"stdout", "stderr"}
            THEN IF format = "" THEN put("verbatim")
                 ELSE IF format \notin ShowFormats THEN skip ELSE put(format)
            ELSE IF output = "expression"
            THEN IF ~inline THEN skip
                 ELSE IF format = "" THEN put("raw")
                 ELSE IF format \notin ShowFormats THEN skip ELSE put(format)
            ELSE skip
    IN ParseShow(toks, i + 1, inline, key, next)

cb_option_show_unchecked(st, inline, key, value) ==
    [st EXCEPT !.options = SetOpt(@, key, OwnDictV(value.toks))]

\* _cb_option_show
cb_option_show(st, inline, key, value) ==
    IF value.ty # "str" THEN Warn(st, key)
    ELSE IF value.s = "none" THEN [st EXCEPT !.options = SetOpt(@, key, NoneV)]
    ELSE IF value.s = "notebook"
    THEN [st EXCEPT !.options =
             SetOpt(@, key, OwnDictV(IF inline THEN st.dflti ELSE st.dflt))]
    ELSE LET r == ParseShow(value.toks, 1, inline, key,
                            [value_processed |-> <<>>, warnings |-> <<>>])
         IN [st EXCEPT !.options = SetOpt(@, key, OwnDictV(r.value_processed)),
                       !.source_warnings = @ \o r.warnings]

\* _cb_option_processors[key](code_chunk, key, value, options)
ProcessOption(st, inline, key, value) ==
    IF key = "hide" THEN cb_option_hide(st, key, value)
    ELSE IF key = "first_number" THEN cb_option_first_number(st, key, value)
    ELSE IF key = "label" THEN cb_option_label(st, key, value)
    ELSE IF key \in {"lang", "session"} THEN cb_option_str(st, key, value)
    ELSE IF key = "line_numbers" THEN cb_option_bool(st, key, value)
    ELSE IF key = "show" THEN cb_option_show(st, inline, key, value)
    ELSE cb_option_unknown(st, key, value)

RECURSIVE ProcessOptions(_, _, _, _)
\* `for k, v in options.items()`, from the i-th item on; an exception ends it.
ProcessOptions(st, inline, options, i) ==
    IF i > Len(options) \/ st.raised THEN st
    ELSE ProcessOptions(ProcessOption(st, inline, options[i][1], options[i][2]),
                        inline, options, i + 1)

\* `if command not in ('code', 'run')`
SupportedCommands == {"code", "run"}

\* CodeChunk.__init__(command, code, options, ...): the state when it
\* returns or raises.
CodeChunkInit(command, inline, options) ==
    ProcessOptions(
        [options |-> CopyDefaults(inline),
         source_errors |-> IF command \notin SupportedCommands
                           THEN << <<"Unknown Codebraid command", command>> >>
                           ELSE <<>>,
         source_warnings |-> <<>>,
         raised |-> FALSE,
         dflt |-> cb_default_show_notebook,
         dflti |-> cb_default_show_inline_notebook],
        inline, options, 1)

\* What the option mapping reads as: a dict value is shown by its items.
Resolved(options, dflt, dflti) ==
    [k \in DOMAIN options |->
        IF options[k].ty = "dict"
        THEN OwnDictV(IF options[k].s = "block" THEN dflt
                      ELSE IF options[k].s = "inline" THEN dflti
                      ELSE options[k].toks)
        ELSE options[k]]

\* The options dicts chunks are constructed with (ordered, keys unique).
OptionInputs ==
    { <<>>,
      << <<"hide", StrToksV("stdout", <<"stdout">>)>> >>,
      << <<"hide", StrToksV("code+stderr", <<"code", "stderr">>)>> >>,
      << <<"hide", StrToksV("expression", <<"expression">>)>> >>,
      << <<"hide", StrToksV("all", <<"all">>)>> >>,
      << <<"hide", StrToksV("output", <<"output">>)>> >>,
      << <<"show", StrToksV("none", << <<"none", "">> >>)>> >>,
      << <<"show", StrToksV("notebook", << <<"notebook", "">> >>)>>,
         <<"hide", StrToksV("stderr", <<"stderr">>)>> >>,
      << <<"show", StrToksV("code+stdout:raw+stdout",
                            << <<"code", "">>, <<"stdout", "raw">>, <<"stdout", "">> >>)>> >>,
      << <<"show", StrToksV("expression+code:raw",
                            << <<"expression", "">>, <<"code", "raw">> >>)>> >>,
      << <<"show", StrToksV("code:raw+code",
                            << <<"code", "raw">>, <<"code", "">> >>)>> >>,
      << <<"show", StrToksV("stdout+stdout:raw+stdout",
                            << <<"stdout", "">>, <<"stdout", "raw">>, <<"stdout", "">> >>)>> >>,
      << <<"show", StrToksV("none", << <<"none", "">> >>)>>,
         <<"hide", StrToksV("code", <<"code">>)>> >>,
      << <<"label", StrV("a")>>, <<"lang", StrV("python")>> >>,
      << <<"first_number", IntV(0)>>, <<"line_numbers", StrV("true")>> >>,
      << <<"first_number", IntV(3)>>, <<"session", StrV("s")>>,
         <<"line_numbers", BoolV(FALSE)>> >>,
      << <<"show", BoolV(TRUE)>> >>,
      << <<"example", BoolV(TRUE)>> >> }

MaxMade == 2

OptInit ==
    /\ cb_default_show_notebook =
          << <<"code", "verbatim">>, <<"stdout", "verbatim">>, <<"stderr", "verbatim">> >>
    /\ cb_default_show_inline_notebook =
          << <<"expression", "raw">>, <<"stderr", "verbatim">> >>
    /\ made = <<>>

\* CodeChunk(command, code, options, source_name, inline=inline)
NewCodeChunk(command, inline, options) ==
    /\ Len(made) < MaxMade
    /\ LET st == CodeChunkInit(command, inline, options)
       IN /\ cb_default_show_notebook' = st.dflt
          /\ cb_default_show_inline_notebook' = st.dflti
          /\ made' = Append(made,
                [command |-> command, inline |-> inline, given |-> options,
                 options |-> st.options,
                 source_errors |-> st.source_errors,
                 source_warnings |-> st.source_warnings,
                 raised |-> st.raised,
                 at_return |-> Resolved(st.options, st.dflt, st.dflti)])

\* The unsupported command is tried without options: it decides nothing but
\* the first entry of source_errors.
OptStep ==
    \E command \in SupportedCommands \cup {"paste"}, inline \in BOOLEAN,
       options \in OptionInputs :
        /\ command \notin SupportedCommands => options = <<>>
        /\ NewCodeChunk(command, inline, options)

\* The default tables as declared (base.py lines 73-77 and 136-143).
DeclaredDefaults(inline) ==
    IF inline
    THEN [lang |-> NoneV, session |-> NoneV,
          show |-> OwnDictV(<< <<"expression", "raw">>, <<"stderr", "verbatim">> >>)]
    ELSE [first_number |-> StrV("next"), lang |-> NoneV, line_numbers |-> BoolV(TRUE),
          session |-> NoneV,
          show |-> OwnDictV(<< <<"code", "verbatim">>, <<"stdout", "verbatim">>,
                               <<"stderr", "verbatim">> >>)]

\* C4 (as claimed): a chunk constructed with no user-supplied options has,
\* when its constructor returns, exactly the declared default table of its
\* mode as its option mapping, whatever chunks were constructed before it.
C4_DefaultsWithoutOptions ==
    \A i \in 1..Len(made) :
        (made[i].given = <<>> /\ made[i].command \in SupportedCommands) =>
            made[i].at_return = DeclaredDefaults(made[i].inline)

\* The show value a chunk was constructed with, when it is a list of tokens
\* (<<>> when the chunk has no such option).
ShowTokens(chunk) ==
    LET idx == {i \in 1..Len(chunk.given) :
                   /\ chunk.given[i][1] = "show"
                   /\ chunk.given[i][2].ty = "str"
                   /\ chunk.given[i][2].s \notin {"none", "notebook"}}
    IN IF idx = {} THEN <<>> ELSE chunk.given[CHOOSE i \in idx : TRUE][2].toks

\* The tokens and the resolved items of a channel
TokensOf(toks, ch) == {i \in 1..Len(toks) : toks[i][1] = ch}
ItemsOf(items, ch) == {i \in 1..Len(items) : items[i][1] = ch}
Repeated(toks) == {toks[i][1] : i \in {j \in 1..Len(toks) : Cardinality(TokensOf(toks, toks[j][1])) > 1}}
FirstToken(toks, ch) ==
    toks[CHOOSE i \in TokensOf(toks, ch) : \A j \in TokensOf(toks, ch) : i <= j]

\* The format a token asks for: the channel's default when it names none
AskedFormat(tok) ==
    IF tok[2] # "" THEN tok[2] ELSE IF tok[1] = "expression" THEN "raw" ELSE "verbatim"

\* A token that names a channel of the chunk's mode and a format of that
\* channel
ValidToken(tok, inline) ==
    /\ tok[1] \in (IF inline THEN HideChannels ELSE HideChannels \ {"expression"})
    /\ AskedFormat(tok) \in (IF tok[1] = "code" THEN {"verbatim"} ELSE ShowFormats)

\* C13 (as claimed): for a `show` value in which a channel appears more than
\* once, the resolved show-spec holds each channel once with the format of
\* its first token, every later token for that channel is dropped, and one
\* warning (no error) is recorded per dropped token.
C13_ShowFirstTokenWins ==
    \A n \in 1..Len(made) :
        LET chunk == made[n]
            toks == ShowTokens(chunk)
            items == chunk.at_return["show"].toks
        IN (Repeated(toks) # {} /\ Len(chunk.given) = 1) =>
              /\ \A ch \in {toks[i][1] : i \in 1..Len(toks)} :
                    /\ Cardinality(ItemsOf(items, ch)) = 1
                    /\ \A i \in ItemsOf(items, ch) :
                          items[i][2] = AskedFormat(FirstToken(toks, ch))
              /\ Len(chunk.source_warnings) = Len(toks) - Len(items)
              /\ chunk.source_errors = <<>>

\* C13 (amended): the same for every repeated channel whose first token is
\* valid for the chunk's mode; every token that is not in the resolved
\* show-spec left exactly one warning and no error.
C13_ShowFirstValidTokenWins ==
    \A n \in 1..Len(made) :
        LET chunk == made[n]
            toks == ShowTokens(chunk)
            items == chunk.at_return["show"].toks
        IN (Repeated(toks) # {} /\ Len(chunk.given) = 1) =>
              /\ \A ch \in Repeated(toks) :
                    ValidToken(FirstToken(toks, ch), chunk.inline) =>
                        /\ Cardinality(ItemsOf(items, ch)) = 1
                        /\ \A i \in ItemsOf(items, ch) :
                              items[i][2] = AskedFormat(FirstToken(toks, ch))
              /\ Len(chunk.source_warnings) = Len(toks) - Len(items)
              /\ chunk.source_errors = <<>>

\* Scenario C (show=code+stdout:raw+stdout resolves to code: verbatim,
\* stdout: raw with one warning) in a block chunk, and a value with two
\* dropped tokens in an inline chunk.
C13_Witness ==
    /\ Len(made) = 2
    /\ ~made[1].inline
    /\ ShowTokens(made[1]) = << <<"code", "">>, <<"stdout", "raw">>, <<"stdout", "">> >>
    /\ made[1].at_return["show"].toks = << <<"code", "verbatim">>, <<"stdout", "raw">> >>
    /\ made[1].source_warnings = << <<"Duplicate", "stdout">> >>
    /\ made[2].inline
    /\ ShowTokens(made[2]) = << <<"stdout", "">>, <<"stdout", "raw">>, <<"stdout", "">> >>
    /\ made[2].at_return["show"].toks = << <<"stdout", "verbatim">> >>
    /\ Len(made[2].source_warnings) = 2

\* The state of CodeChunk.__init__ before and after the handler of the i-th
\* given option ran, and what the option mapping read as then.
HandlerBefore(chunk, i) == CodeChunkInit(chunk.command, chunk.inline, SubSeq(chunk.given, 1, i - 1))
HandlerAfter(chunk, i) == CodeChunkInit(chunk.command, chunk.inline, SubSeq(chunk.given, 1, i))
ResolvedAt(st) == Resolved(st.options, st.dflt, st.dflti)
HandlerWarned(chunk, i) ==
    /\ ~HandlerBefore(chunk, i).raised
    /\ Len(HandlerAfter(chunk, i).source_warnings) > Len(HandlerBefore(chunk, i).source_warnings)
SameValue(a, b, key) ==
    IF key \in DOMAIN a THEN key \in DOMAIN b /\ b[key] = a[key] ELSE key \notin DOMAIN b

\* C16 (as claimed): whenever an option handler records a warning for a
\* supplied option value, the resolved value of that option is what it was
\* before the handler ran.
C16_WarningKeepsValue ==
    [][Len(made') = Len(made) + 1 =>
          LET chunk == made'[Len(made')]
          IN \A i \in 1..Len(chunk.given) :
                HandlerWarned(chunk, i) =>
                    SameValue(ResolvedAt(HandlerBefore(chunk, i)),
                              ResolvedAt(HandlerAfter(chunk, i)), chunk.given[i][1])]_vars

\* C16 (amended): a handler that records a warning leaves the whole resolved
\* option mapping as it was, unless it is _cb_option_show given a string:
\* that one leaves every other option as it was and sets `show` to the
\* mapping of the tokens it accepted, each a valid token of the value, in
\* the order of the value.
C16_WarningKeepsValueExceptShow ==
    [][Len(made') = Len(made) + 1 =>
          LET chunk == made'[Len(made')]
          IN \A i \in 1..Len(chunk.given) :
                LET key == chunk.given[i][1]
                    value == chunk.given[i][2]
                    before == ResolvedAt(HandlerBefore(chunk, i))
                    after == ResolvedAt(HandlerAfter(chunk, i))
                IN HandlerWarned(chunk, i) =>
                      IF key = "show" /\ value.ty = "str"
                      THEN /\ \A k \in (DOMAIN before \cup DOMAIN after) \ {"show"} :
                                SameValue(before, after, k)
                           /\ after["show"].ty = "dict"
                           /\ \A n \in 1..Len(after["show"].toks) :
                                \E t \in 1..Len(value.toks) :
                                   /\ ValidToken(value.toks[t], chunk.inline)
                                   /\ after["show"].toks[n] =
                                         <<value.toks[t][1], AskedFormat(value.toks[t])>>
                           /\ Len(after["show"].toks) < Len(value.toks)
                      ELSE after = before]_vars

\* Reached: a chunk whose show value has a refused token and whose show
\* mapping is no longer the default, and a chunk whose first_number and
\* line_numbers values were refused and are the defaults.
C16_Witness ==
    /\ Len(made) = 2
    /\ made[1].given = << <<"show", StrToksV("code:raw+code", << <<"code", "raw">>, <<"code", "">> >>)>> >>
    /\ made[1].source_warnings # <<>>
    /\ made[1].at_return["show"].toks = << <<"code", "verbatim">> >>
    /\ ~made[2].inline
    /\ Len(made[2].source_warnings) = 2
    /\ made[2].at_return["first_number"] = StrV("next")
    /\ made[2].at_return["line_numbers"] = BoolV(TRUE)

\* The items of a show mapping are legal for a chunk of the given mode.
LegalShow(items, inline) ==
    \A i \in 1..Len(items) :
        /\ items[i][1] \in {"code", "stdout", "stderr", "expression"}
        /\ items[i][1] = "expression" => inline
        /\ items[i][1] = "code" => items[i][2] = "verbatim"
        /\ items[i][2] \in {"verbatim", "verbatim_or_empty", "raw"}

\* C23: in every resolved show-spec, from the defaults, `show`, `hide` or a
\* sequence of them, each channel is one of code, stdout, stderr and
\* expression, expression only for an inline chunk, code has the format
\* verbatim, and the others a format among verbatim, verbatim_or_empty, raw.
C23_ShowSpecLegal ==
    /\ LegalShow(cb_default_show_notebook, FALSE)
    /\ LegalShow(cb_default_show_inline_notebook, TRUE)
    /\ \A n \in 1..Len(made) :
          made[n].at_return["show"].ty = "dict" =>
              LegalShow(made[n].at_return["show"].toks, made[n].inline)

\* Reached: an inline chunk whose show value kept `expression` and dropped
\* code:raw, and a block chunk for which the same value left nothing.
C23_Witness ==
    /\ Len(made) = 2
    /\ made[1].inline /\ ~made[2].inline
    /\ \A n \in 1..2 : Len(made[n].given) = 1 /\ made[n].given[1][2].s = "expression+code:raw"
    /\ made[1].at_return["show"].toks = << <<"expression", "raw">> >>
    /\ made[2].at_return["show"].toks = <<>>

\* C28 (as claimed): option resolution never fails abruptly: for every
\* options mapping (among them hide=all, hide after show=none, unknown
\* keys) the construction of the chunk completes, and problems are reported
\* through the chunk's error and warning lists only.
C28_ResolutionNeverRaises ==
    \A n \in 1..Len(made) : ~made[n].raised

\* What a chunk's option mapping reads as now.
ResolvedNow(chunk) ==
    Resolved(chunk.options, cb_default_show_notebook, cb_default_show_inline_notebook)

\* C29 (as claimed): resolving the options of any sequence of chunks leaves
\* the default show dicts as declared, never changes the resolved options
\* of another chunk, and gives chunks of the same command, mode and options
\* the same resolved options, whatever chunks were resolved before them.
C29_DefaultsAndChunksIndependent ==
    /\ cb_default_show_notebook = DeclaredDefaults(FALSE).show.toks
    /\ cb_default_show_inline_notebook = DeclaredDefaults(TRUE).show.toks
    /\ \A n \in 1..Len(made) : ResolvedNow(made[n]) = made[n].at_return
    /\ \A i, j \in 1..Len(made) :
          (/\ made[i].command = made[j].command
           /\ made[i].inline = made[j].inline
           /\ made[i].given = made[j].given) => made[i].at_return = made[j].at_return

\* ------------------------------ chunk attributes (pandoc.py) to options
\* Classes that start with 'cb.'
CbClasses == {"cb.code", "cb.run"}

\* class_name.split('.', 1)[1]
CommandOfClass(c) == IF c = "cb.code" THEN "code" ELSE "run"

\* The state threaded through the class and key-value processors of one
\* PandocCodeChunk.__init__: the dict `options` (its items in insertion
\* order), and the chunk's error and warning lists.
OptionsGet(options, key) ==
    options[CHOOSE i \in 1..Len(options) : options[i][1] = key][2]

\* options[key] = value, for a key the dict does not hold
OptionsPut(pp, key, value) == [pp EXCEPT !.options = Append(@, <<key, value>>)]

\* options.pop(key, None): the dict without the key
OptionsPop(options, key) == SelectSeq(options, LAMBDA item : item[1] # key)

PreError(pp, tag, key) == [pp EXCEPT !.source_errors = Append(@, <<tag, key>>)]
PreWarning(pp, tag, key) == [pp EXCEPT !.source_warnings = Append(@, <<tag, key>>)]

\* class_lang_or_unknown
class_lang_or_unknown(pp, class_index, class_name) ==
    IF HasKey(pp.options, "lang") \/ class_index > 0
    THEN PreError(pp, "Unknown or misplaced class", class_name)
    ELSE OptionsPut(pp, "lang", StrV(class_name))

\* class_codebraid_command
class_codebraid_command(pp, class_index, class_name) ==
    IF HasKey(pp.options, "codebraid_command")
    THEN PreError(pp, "Only one Codebraid command", class_name)
    ELSE OptionsPut(pp, "codebraid_command", StrV(CommandOfClass(class_name)))

\* class_line_numbers
class_line_numbers(pp, class_index, class_name) ==
    IF HasKey(pp.options, "line_numbers")
    THEN PreWarning(pp, "Duplicate", class_name)
    ELSE OptionsPut(pp, "line_numbers", BoolV(TRUE))

LineNumberKeys == {"line_numbers", "numberLines", "number-lines", "number_lines"}
FirstNumberKeys == {"first_number", "startFrom", "start-from", "start_from"}
BoolKeys == {"complete", "live_output", "outside_main", "expand_tabs", "rewrap_lines"}
IntKeys == {"jupyter_timeout", "tab_size", "rewrap_width"}

\* self._class_processors[c](self, options, n, c); n counts from 0
ClassProcess(pp, n, c) ==
    IF c \in CbClasses THEN class_codebraid_command(pp, n, c)
    ELSE IF c \in LineNumberKeys THEN class_line_numbers(pp, n, c)
    ELSE class_lang_or_unknown(pp, n, c)

\* int(value) of an attribute string: the decimal numerals of the model
Numerals == {"0", "3", "4"}
IntOf(x) == IF x = "0" THEN 0 ELSE IF x = "3" THEN 3 ELSE 4

\* keyval_generic (the keys of the model are not namespace keywords)
keyval_generic(pp, key, value) ==
    IF HasKey(pp.options, key) THEN PreError(pp, "Duplicate", key)
    ELSE OptionsPut(pp, key, value)

\* keyval_bool
keyval_bool(pp, key, value) ==
    IF HasKey(pp.options, key) THEN PreError(pp, "Duplicate", key)
    ELSE IF value.s \notin {"true", "false"} THEN PreError(pp, "Invalid", key)
    ELSE OptionsPut(pp, key, BoolV(value.s = "true"))

\* keyval_int
keyval_int(pp, key, value) ==
    IF HasKey(pp.options, key) THEN PreError(pp, "Duplicate", key)
    ELSE IF value.s \notin Numerals THEN PreError(pp, "Invalid", key)
    ELSE OptionsPut(pp, key, IntV(IntOf(value.s)))

\* keyval_first_number: a value that is not a numeral is stored as it is
keyval_first_number(pp, key, value) ==
    IF HasKey(pp.options, "first_number") THEN PreWarning(pp, "Duplicate", key)
    ELSE OptionsPut(pp, "first_number",
                    IF value.s \in Numerals THEN IntV(IntOf(value.s)) ELSE value)

\* keyval_line_numbers
keyval_line_numbers(pp, key, value) ==
    IF HasKey(pp.options, "line_numbers") THEN PreWarning(pp, "Duplicate", key)
    ELSE IF value.s \notin {"true", "false"} THEN PreWarning(pp, "Invalid", key)
    ELSE OptionsPut(pp, "line_numbers", BoolV(value.s = "true"))

\* self._kv_processors[k](self, options, k, v)
KeyvalProcess(pp, k, v) ==
    IF k \in BoolKeys THEN keyval_bool(pp, k, v)
    ELSE IF k \in IntKeys THEN keyval_int(pp, k, v)
    ELSE IF k \in FirstNumberKeys THEN keyval_first_number(pp, k, v)
    ELSE IF k \in LineNumberKeys THEN keyval_line_numbers(pp, k, v)
    ELSE keyval_generic(pp, k, v)

RECURSIVE ClassLoop(_, _, _)
\* `for n, c in enumerate(node_classes)`, from the i-th class on
ClassLoop(pp, node_classes, i) ==
    IF i > Len(node_classes) THEN pp
    ELSE ClassLoop(ClassProcess(pp, i - 1, node_classes[i]), node_classes, i + 1)

RECURSIVE KeyvalLoop(_, _, _)
\* `for k, v in node_kvpairs`, from the i-th pair on
KeyvalLoop(pp, node_kvpairs, i) ==
    IF i > Len(node_kvpairs) THEN pp
    ELSE KeyvalLoop(KeyvalProcess(pp, node_kvpairs[i][1], node_kvpairs[i][2]),
                    node_kvpairs, i + 1)

\* "Preprocess options" of PandocCodeChunk.__init__
PreprocessOptions(node_classes, node_kvpairs) ==
    KeyvalLoop(ClassLoop([options |-> <<>>, source_errors |-> <<>>,
                          source_warnings |-> <<>>], node_classes, 1),
               node_kvpairs, 1)

\* PandocCodeChunk.__init__ from the preprocessing to the return of
\* CodeChunk.__init__ (the check of example mode, which needs the node's
\* place in the tree, is in PandocCodeChunk below):
\*   codebraid_command = options.pop('codebraid_command', None)
\*   line_anchors = options.pop('lineAnchors', None)
\*   super().__init__(codebraid_command, code, options, ..., inline=inline)
\* The error and warning lists of the preprocessing are the lists
\* CodeChunk.__init__ appends to.
PandocChunkOptions(t, node_classes, node_kvpairs) ==
    LET pp == PreprocessOptions(node_classes, node_kvpairs)
        inline == t = "Code"
        codebraid_command ==
            IF HasKey(pp.options, "codebraid_command")
            THEN OptionsGet(pp.options, "codebraid_command").s ELSE "None"
        options == OptionsPop(OptionsPop(pp.options, "codebraid_command"), "lineAnchors")
        st == CodeChunkInit(codebraid_command, inline, options)
    IN [st EXCEPT !.source_errors = pp.source_errors \o @,
                  !.source_warnings = pp.source_warnings \o @]
       @@ [command |-> codebraid_command, given |-> options]

\* The class lists and key-value lists of the code nodes chunks are made of.
AttrClasses ==
    { <<"cb.run">>, <<"python", "cb.code">>, <<"cb.run", "numberLines">> }
AttrKvpairs ==
    { <<>>,
      << <<"label", StrV("a")>>, <<"label", StrV("b")>> >>,
      << <<"session", StrV("s")>>, <<"lang", StrV("r")>>, <<"session", StrV("t")>> >>,
      << <<"line_numbers", StrV("maybe")>>, <<"line_numbers", StrV("false")>> >>,
      << <<"numberLines", StrV("false")>>, <<"line_numbers", StrV("true")>>,
         <<"number_lines", StrV("false")>> >>,
      << <<"first_number", StrV("3")>>, <<"startFrom", StrV("4")>> >>,
      << <<"first_number", StrV("abc")>>, <<"first_number", StrV("3")>> >>,
      << <<"tab_size", StrV("x")>>, <<"tab_size", StrV("4")>> >>,
      << <<"show", StrToksV("none", << <<"none", "">> >>)>>,
         <<"show", StrToksV("code", << <<"code", "">> >>)>> >>,
      << <<"hide", StrToksV("stdout", <<"stdout">>)>>, <<"bogus", StrV("1")>> >> }

\* PandocCodeChunk(node, ...) for a code node of kind t with the given attr
NewPandocCodeChunk(t, node_classes, node_kvpairs) ==
    /\ Len(made) < MaxMade
    /\ LET st == PandocChunkOptions(t, node_classes, node_kvpairs)
       IN /\ cb_default_show_notebook' = st.dflt
          /\ cb_default_show_inline_notebook' = st.dflti
          /\ made' = Append(made,
                [command |-> st.command, inline |-> t = "Code", given |-> st.given,
                 node_classes |-> node_classes, node_kvpairs |-> node_kvpairs,
                 options |-> st.options,
                 source_errors |-> st.source_errors,
                 source_warnings |-> st.source_warnings,
                 raised |-> st.raised,
                 at_return |-> Resolved(st.options, st.dflt, st.dflti)])

AttrStep ==
    \E t \in CodeKinds, node_classes \in AttrClasses, node_kvpairs \in AttrKvpairs :
        NewPandocCodeChunk(t, node_classes, node_kvpairs)

\* The option key a class or a key-value attribute supplies: the first class
\* is the language unless it is a class of its own meaning; "" for a later
\* class that is no option.
OptionOfClass(c, n) ==
    IF c \in CbClasses THEN "codebraid_command"
    ELSE IF c \in LineNumberKeys THEN "line_numbers"
    ELSE IF n = 0 THEN "lang" ELSE ""
OptionOfKey(k) ==
    IF k \in FirstNumberKeys THEN "first_number"
    ELSE IF k \in LineNumberKeys THEN "line_numbers" ELSE k

\* The option keys a node supplies: its classes in class order, then its
\* key-value attributes in attribute order.
Supplies(node_classes, node_kvpairs) ==
    [i \in 1..(Len(node_classes) + Len(node_kvpairs)) |->
        IF i <= Len(node_classes) THEN OptionOfClass(node_classes[i], i - 1)
        ELSE OptionOfKey(node_kvpairs[i - Len(node_classes)][1])]

\* The later occurrences: the supplies of a key that was supplied before.
LaterOccurrences(sup) ==
    {j \in 1..Len(sup) : sup[j] # "" /\ \E i \in 1..(j - 1) : sup[i] = sup[j]}

RECURSIVE Without(_, _, _, _)
\* seq without the items whose position, counted from `offset`, is in drop
Without(seq, offset, drop, i) ==
    IF i > Len(seq) THEN <<>>
    ELSE (IF (offset + i) \in drop THEN <<>> ELSE <<seq[i]>>)
         \o Without(seq, offset, drop, i + 1)

\* How many diagnostics of a chunk say that an option was supplied again
DuplicateCount(chunk) ==
    LET all == chunk.source_errors \o chunk.source_warnings
    IN Cardinality({i \in 1..Len(all) :
                       all[i][1] \in {"Duplicate", "Only one Codebraid command"}})

\* The value a chunk resolved for an option key
ResolvedValue(command, at_return, key) ==
    IF key = "codebraid_command" THEN StrV(command)
    ELSE IF key \in DOMAIN at_return THEN at_return[key] ELSE StrV("<absent>")

\* C12 (as claimed): whenever a node supplies the same option key more than
\* once (classes first, then key-value attributes), every later occurrence
\* adds one duplicate diagnostic to the chunk and no later occurrence changes
\* the resolved value: the chunk resolves the key to what it resolves to
\* when the later occurrences are left out.
C12_FirstOccurrenceWins ==
    \A n \in 1..Len(made) :
        LET chunk == made[n]
            sup == Supplies(chunk.node_classes, chunk.node_kvpairs)
            later == LaterOccurrences(sup)
            first == PandocChunkOptions(
                         IF chunk.inline THEN "Code" ELSE "CodeBlock",
                         Without(chunk.node_classes, 0, later, 1),
                         Without(chunk.node_kvpairs, Len(chunk.node_classes), later, 1))
        IN (later # {} /\ ~chunk.raised) =>
              /\ DuplicateCount(chunk) = Cardinality(later)
              /\ \A j \in later :
                    ResolvedValue(chunk.command, chunk.at_return, sup[j]) =
                    ResolvedValue(first.command,
                                  Resolved(first.options, first.dflt, first.dflti),
                                  sup[j])

\* `if self.source_errors:` of output_nodes: the chunk's output is the one
\* node that shows its source errors.
OutputNeverSourceError(chunk) == FALSE

OutputIsSourceError(chunk) == chunk.source_errors # <<>>

\* C14 (as claimed): a block chunk whose key-value attributes are
\* label="a" label="b" resolves label to 'a', has the duplicate in its
\* warning list and not in its error list, and its output is not an error
\* annotation.
C14_DuplicateLabelWarns ==
    \A n \in 1..Len(made) :
        LET chunk == made[n]
        IN (/\ ~chunk.inline
            /\ chunk.node_classes = <<"cb.run">>
            /\ chunk.node_kvpairs = << <<"label", StrV("a")>>, <<"label", StrV("b")>> >>) =>
              /\ "label" \in DOMAIN chunk.at_return
              /\ chunk.at_return["label"] = StrV("a")
              /\ \E i \in 1..Len(chunk.source_warnings) :
                    chunk.source_warnings[i] = <<"Duplicate", "label">>
              /\ \A i \in 1..Len(chunk.source_errors) :
                    chunk.source_errors[i] # <<"Duplicate", "label">>
              /\ ~OutputIsSourceError(chunk)

\* C19: the option mapping of every chunk, inline or block, whatever classes
\* and attributes it was given (valid, invalid, duplicate or unknown), has
\* every key of the default table of the chunk's mode.
C19_DefaultKeysKept ==
    \A n \in 1..Len(made) :
        DOMAIN (IF made[n].inline THEN cb_default_inline_options ELSE cb_default_options)
            \subseteq DOMAIN made[n].options

\* Reached: an inline chunk with a hide directive and an unknown attribute,
\* and a block chunk with a duplicate and an invalid attribute.
C19_Witness ==
    /\ Len(made) = 2
    /\ made[1].inline /\ ~made[2].inline
    /\ made[1].node_kvpairs = << <<"hide", StrToksV("stdout", <<"stdout">>)>>, <<"bogus", StrV("1")>> >>
    /\ "hide" \in DOMAIN made[1].options
    /\ \E e \in 1..Len(made[1].source_errors) : made[1].source_errors[e][1] = "Unknown option"
    /\ made[2].node_kvpairs = << <<"first_number", StrV("abc")>>, <<"first_number", StrV("3")>> >>
    /\ Len(made[2].source_warnings) = 2

WalkKinds == {"Para", "Note", "DefinitionList", "Code"}

WalkStep ==
    \/ \E t \in WalkKinds : ~wdone /\ AddNode(t, PlainPayload(t)) /\ UNCHANGED walkVars
    \/ ~wdone /\ AddNestedList /\ UNCHANGED walkVars
    \/ \E v \in {0, -1} : ~wdone /\ AddOther(v) /\ UNCHANGED walkVars
    \/ ~wdone /\ AddDefItem /\ UNCHANGED walkVars
    \/ ~wdone /\ CloseList /\ UNCHANGED walkVars
    \/ \E f \in WalkFilters, s \in BOOLEAN : WalkAst(f, s)

\* ------------------------------------- chunk extraction and output splicing
\* Python's None, for a command, and for a source name or line number
None == "<None>"
NoName == 0
NoLine == 0

\* [attr, code] of a code node with one class and, for example mode, the
\* key-value pair example=true.
ChunkPayload(class, example) ==
    << <<"", <<class>>, IF example THEN << <<"example", StrV("true")>> >> ELSE <<>> >>, "x" >>

\* `any(c.startswith('cb.') for c in node['c'][0][1])`
IsCodebraidNode(node) ==
    \E i \in 1..Len(node.p[1][2]) : node.p[1][2][i] \in CbClasses

\* options['codebraid_command'] after the class processors ran: the first
\* cb. class.
CodebraidCommand(node) ==
    LET classes == node.p[1][2]
        first == CHOOSE i \in 1..Len(classes) :
                    /\ classes[i] \in CbClasses
                    /\ \A j \in 1..(i - 1) : classes[j] \notin CbClasses
    IN CommandOfClass(classes[first])

\* self.options['example'] when CodeChunk.__init__ returns: true exactly
\* when the chunk carries example=true (keyval_bool turns 'true' into True).
OptionExample(node) ==
    \E i \in 1..Len(node.p[1][3]) : node.p[1][3][i] = <<"example", StrV("true")>>

ExampleMisplacedNever(node, parent_node, parent_node_list) == FALSE

\* The test that refuses example mode: `inline and self.options['example']`
\* and a parent that is not a Plain or Para, or is a pseudonode, or whose
\* list holds more than the chunk.
ExampleMisplaced(node, parent_node, parent_node_list) ==
    /\ node.t = "Code"
    /\ OptionExample(node)
    /\ \/ KindOf(parent_node) \notin {"Plain", "Para"}
       \/ parent_node < 0
       \/ Len(lists[parent_node_list]) > 1

\* PandocCodeChunk(node, parent_node, parent_node_list, parent_node_list_index)
PandocCodeChunk(node_tuple) ==
    LET node == nodes[node_tuple.node]
        inline == node.t = "Code"
        parent_node == node_tuple.parent_node
        misplaced == ExampleMisplaced(node, parent_node, node_tuple.parent_node_list)
        \* the attributes the options of these files are resolved from
        node_kvpairs == SelectSeq(node.p[1][3], LAMBDA kv : kv[1] # "example")
        st == PandocChunkOptions(node.t, node.p[1][2], node_kvpairs)
    IN [node |-> node_tuple.node,
        parent_node |-> parent_node,
        parent_node_list |-> node_tuple.parent_node_list,
        parent_node_list_index |-> node_tuple.parent_node_list_index,
        in_note |-> node_tuple.in_note,
        command |-> CodebraidCommand(node),
        inline |-> inline,
        example |-> OptionExample(node) /\ ~misplaced,
        \* self.source_errors.insert(0, 'Option "example" is only allowed ...')
        source_errors |-> (IF misplaced THEN << <<"Misplaced", "example">> >> ELSE <<>>)
                          \o st.source_errors,
        source_name |-> NoName,
        source_start_line_number |-> NoLine]

SpliceInit ==
    /\ code_chunks = <<>>
    /\ sphase = "parse"
    /\ order = <<>>

\* _extract_code_chunks, as far as it builds self.code_chunks: one chunk for
\* every code node of the walk that has a cb. class.
ExtractedChunks ==
    LET code_raw_node_tuples == WalkAstTuples(pandoc_code_raw_nodes, FALSE)
        cb == SelectSeq(code_raw_node_tuples,
                        LAMBDA nt : /\ nodes[nt.node].t \in CodeKinds
                                    /\ IsCodebraidNode(nodes[nt.node]))
    IN [i \in 1..Len(cb) |-> PandocCodeChunk(cb[i])]

ExtractCodeChunks ==
    /\ sphase = "parse"
    /\ Len(open) = 1
    /\ code_chunks' = ExtractedChunks
    /\ sphase' = "chunks"
    /\ UNCHANGED <<heapVars, order>>

SpliceOrderForward(n) == [i \in 1..n |-> i]
\* reversed(self.code_chunks), as indices into a list of n chunks
SpliceOrder(n) == [i \in 1..n |-> n - i + 1]

Min(a, b) == IF a < b THEN a ELSE b

\* node_list[index:index] = new_items: the items are put in and the slot is
\* left in the list
SliceInsert(node_list, index, new_items) ==
    SubSeq(node_list, 1, index) \o new_items \o SubSeq(node_list, index + 1, Len(node_list))

\* node_list[index:index+1] = new_items (a slice assignment clamps the
\* bounds to the list's length)
SliceAssign(node_list, index, new_items) ==
    LET lo == Min(index, Len(node_list))
        hi == Min(index + 1, Len(node_list))
    IN SubSeq(node_list, 1, lo) \o new_items \o SubSeq(node_list, hi + 1, Len(node_list))

\* Whether the chunk's recorded slot holds the chunk's node.
SlotHoldsNode(chunk) ==
    /\ chunk.parent_node_list_index < Len(lists[chunk.parent_node_list])
    /\ lists[chunk.parent_node_list][chunk.parent_node_list_index + 1] = chunk.node

\* The most channels a chunk shows.
MaxOut == 2

\* What the execution, and the option table of the chunk, have given a
\* chunk when its output is built (both are set by code outside these
\* files):
\*   show    self.options['show'], the items <<output, format>> in order
\*   lines   the channels whose <output>_lines is not None
\*   runtime_source_error  self.runtime_source_error
\* A node of the output is a node of the heap without its identity.
CodeOutput(t_code, classes) ==
    [t |-> t_code, c |-> -2, p |-> << <<"", classes, <<>> >>, "out" >>]
RawOutput(t_raw) == [t |-> t_raw, c |-> -2, p |-> <<"markdown", "out">>]

\* The node for the source errors: the message names the source and the
\* line, and is followed by the joined errors.
SourceErrorNode(chunk, results) ==
    [t |-> IF chunk.inline THEN "Code" ELSE "CodeBlock", c |-> -2,
     p |-> << <<"", <<"sourceError">>, <<>> >>,
              [message |-> IF results.runtime_source_error
                           THEN "RUNTIME SOURCE ERROR" ELSE "SOURCE ERROR",
               source_name |-> chunk.source_name,
               line |-> chunk.source_start_line_number,
               joined |-> chunk.source_errors] >>]

RECURSIVE ShowLoop(_, _, _, _)
\* `for output, format in self.options['show'].items()`, from the i-th item
\* on: acc = [unformatted_nodes, raised] (raised: ValueError).  The
\* rich_output and repl channels are not in the show values of the model.
ShowLoop(chunk, results, i, acc) ==
    IF i > Len(results.show) \/ acc.raised THEN acc
    ELSE
    LET output == results.show[i][1]
        format == results.show[i][2]
        t_code == IF chunk.inline THEN "Code" ELSE "CodeBlock"
        t_raw == IF chunk.inline THEN "RawInline" ELSE "RawBlock"
        put(node) == [acc EXCEPT !.unformatted_nodes = Append(@, node)]
        next ==
            IF output \in {"markup", "copied_markup"} THEN put(CodeOutput(t_code, <<"markdown">>))
            ELSE IF output = "code" THEN put(CodeOutput(t_code, <<>>))
            ELSE IF output \in {"expr", "stdout", "stderr"}
            THEN IF format = "verbatim"
                 THEN IF output \in results.lines
                      THEN put(CodeOutput(t_code, <<output>>)) ELSE acc
                 ELSE IF format = "verbatim_or_empty"
                 THEN put(CodeOutput(t_code, <<output>>))
                 ELSE IF format = "raw"
                 THEN IF output \in results.lines THEN put(RawOutput(t_raw)) ELSE acc
                 ELSE [acc EXCEPT !.raised = TRUE]
            ELSE [acc EXCEPT !.raised = TRUE]
    IN ShowLoop(chunk, results, i + 1, next)

\* {'t': 'Str', 'c': ' '} and {'t': 'Para', 'c': []}
StrSeparator == [t |-> "Str", c |-> -1, p |-> <<>>]
ParaSeparator == [t |-> "Para", c |-> -2, p |-> <<>>]

RECURSIVE Separated(_, _, _)
\* "Prevent adjacent nodes from merging": the loop over
\* zip(unformatted_nodes[:-1], unformatted_nodes[1:]), from the i-th pair
\* on, and the last node.
Separated(unformatted_nodes, inline, i) ==
    IF unformatted_nodes = <<>> THEN <<>>
    ELSE IF i >= Len(unformatted_nodes) THEN <<unformatted_nodes[Len(unformatted_nodes)]>>
    ELSE
    LET node == unformatted_nodes[i]
        next_node == unformatted_nodes[i + 1]
        t_code == IF inline THEN "Code" ELSE "CodeBlock"
        t_raw == IF inline THEN "RawInline" ELSE "RawBlock"
        separator ==
            IF node.t = t_raw \/ next_node.t = t_raw
            THEN IF inline THEN <<StrSeparator>> ELSE <<ParaSeparator>>
            ELSE IF inline /\ node.t = t_code /\ next_node.t = t_code
            THEN <<StrSeparator>>
            ELSE <<>>
    IN <<node>> \o separator \o Separated(unformatted_nodes, inline, i + 1)

\* PandocCodeChunk.output_nodes, the first time it is read:
\* [nodes, raised]
output_nodes(chunk, results) ==
    IF OutputIsSourceError(chunk)
    THEN [nodes |-> <<SourceErrorNode(chunk, results)>>, raised |-> FALSE]
    ELSE LET acc == ShowLoop(chunk, results, 1,
                             [unformatted_nodes |-> <<>>, raised |-> FALSE])
         IN [nodes |-> Separated(acc.unformatted_nodes, chunk.inline, 1),
             raised |-> acc.raised]

\* A node whose contents are [attr, contents]: attr holds only strings and is
\* kept as one scalar item.
DivContents(contents_list) == <<0, contents_list>>

\* The chunk the reversed loop of _postprocess_code_chunks handles next
NextChunkIndex == SpliceOrder(Len(code_chunks))[Len(order) + 1]

\* code_chunk.update_parent_node() for the next chunk of the reversed loop of
\* _postprocess_code_chunks, the chunk having the given results.  The ids
\* of the objects it creates: the k output nodes from nextId on, then
\*   +0 markup_node                  +1 the exampleMarkup Div
\*   +2 its 'c'                      +3 its contents [markup_node]
\*   +4 example_div_node['c']        +5 example_div_contents
\*   +6 the exampleOutput Div        +7 its 'c'
\*   +8 its contents (output_nodes, or [Para] for an inline chunk)
\*   +9 the Para wrapper            +10 its 'c' (output_nodes)
\*   +11 example_div_node
UpdateParentNode(results) ==
    /\ sphase = "chunks"
    /\ Len(order) < Len(code_chunks)
    /\ LET ci == NextChunkIndex
           chunk == code_chunks[ci]
           index == chunk.parent_node_list_index
           pl == chunk.parent_node_list
       IN \E out \in {output_nodes(chunk, results)} :
       LET k == Len(out.nodes)
           outs == [i \in 1..k |-> nextId + i - 1]
           b == nextId + k
           out_nodes == [n \in {outs[i] : i \in 1..k} |-> out.nodes[n - nextId + 1]]
           wrapped == k > 0 /\ chunk.inline
           example_nodes ==
               (b :> [t |-> "CodeBlock", c |-> -2, p |-> << <<"", <<>>, <<>> >>, "markup" >>])
               @@ (b + 1 :> [t |-> "Div", c |-> b + 2, p |-> <<>>])
               @@ (IF k > 0 THEN (b + 6 :> [t |-> "Div", c |-> b + 7, p |-> <<>>]) ELSE <<>>)
               @@ (IF wrapped THEN (b + 9 :> [t |-> "Para", c |-> b + 10, p |-> <<>>]) ELSE <<>>)
           example_lists ==
               (b + 2 :> DivContents(b + 3)) @@ (b + 3 :> <<b>>)
               @@ (b + 4 :> DivContents(b + 5))
               @@ (b + 5 :> IF k > 0 THEN <<b + 1, b + 6>> ELSE <<b + 1>>)
               @@ (IF k > 0
                   THEN (b + 7 :> DivContents(b + 8))
                        @@ (b + 8 :> IF wrapped THEN <<b + 9>> ELSE outs)
                   ELSE <<>>)
               @@ (IF wrapped THEN (b + 10 :> outs) ELSE <<>>)
           roles(ls) == [l \in DOMAIN ls |-> "spliced"]
           this_call == [chunk |-> ci, outputs |-> k, out_ids |-> outs,
                         slot_held_node |-> SlotHoldsNode(chunk)]
       IN /\ order' = Append(order, this_call)
          /\ IF out.raised
             THEN \* ValueError in output_nodes
                  /\ sphase' = "error"
                  /\ UNCHANGED heapVars
             ELSE IF ~chunk.example
             THEN /\ lists' = [lists EXCEPT ![pl] = SliceAssign(@, index, outs)]
                  /\ nodes' = nodes @@ out_nodes
                  /\ nextId' = b
                  /\ UNCHANGED <<lrole, sphase>>
             ELSE IF chunk.inline
             THEN \* the parent Para/Plain is redefined as the example Div
                  /\ nodes' = [nodes EXCEPT ![chunk.parent_node] =
                                   [t |-> "Div", c |-> b + 4, p |-> @.p]]
                               @@ out_nodes @@ example_nodes
                  /\ lists' = lists @@ example_lists
                  /\ lrole' = lrole @@ roles(example_lists)
                  /\ nextId' = b + 12
                  /\ UNCHANGED sphase
             ELSE IF index < Len(lists[pl])
             THEN /\ nodes' = nodes @@ out_nodes @@ example_nodes
                               @@ (b + 11 :> [t |-> "Div", c |-> b + 4, p |-> <<>>])
                  /\ lists' = [lists EXCEPT ![pl][index + 1] = b + 11] @@ example_lists
                  /\ lrole' = lrole @@ roles(example_lists)
                  /\ nextId' = b + 12
                  /\ UNCHANGED sphase
             ELSE \* parent_node_list[index] = ...: IndexError
                  /\ sphase' = "error"
                  /\ UNCHANGED heapVars
    /\ UNCHANGED <<open, code_chunks>>

\* Results that make a chunk without source errors show k code nodes
CodeResults(k) ==
    [show |-> SubSeq(<< <<"code", "verbatim">>, <<"stdout", "verbatim_or_empty">>,
                        <<"stderr", "verbatim_or_empty">>, <<"expr", "verbatim_or_empty">> >>,
                     1, k),
     lines |-> {}, runtime_source_error |-> FALSE]

\* Where inline nodes stand: the contents of a Para, the term of a
\* definition-list item.  Every other list holds blocks.
InlineList(l) ==
    \/ \E n \in DOMAIN nodes : nodes[n].t = "Para" /\ nodes[n].c = l
    \/ \E e \in DOMAIN lists : lrole[e] = "elem" /\ lists[e][1] = l

CodePayloads ==
    {PlainPayload("Code"), ChunkPayload("cb.run", FALSE), ChunkPayload("cb.code", TRUE)}

SpliceStep ==
    \/ \E t \in {"Para", "DefinitionList"} :
          sphase = "parse" /\ ~InlineList(Top) /\ AddNode(t, PlainPayload(t))
          /\ UNCHANGED spliceVars
    \/ sphase = "parse" /\ InlineList(Top) /\ AddNode("Note", PlainPayload("Note"))
          /\ UNCHANGED spliceVars
    \/ \E p \in CodePayloads :
          sphase = "parse" /\ InlineList(Top) /\ AddNode("Code", p)
          /\ UNCHANGED spliceVars
    \/ \E p \in CodePayloads :
          sphase = "parse" /\ ~InlineList(Top) /\ AddNode("CodeBlock", p)
          /\ UNCHANGED spliceVars
    \/ sphase = "parse" /\ ~InlineList(Top) /\ AddNestedList /\ UNCHANGED spliceVars
    \/ sphase = "parse" /\ AddDefItem /\ UNCHANGED spliceVars
    \/ sphase = "parse" /\ CloseList /\ UNCHANGED spliceVars
    \/ ExtractCodeChunks
    \/ \E k \in 0..MaxOut : UpdateParentNode(CodeResults(k))

\* ---- splicing the outputs of chunks that stand next to each other
\* The most chunks of a tree whose outputs are built in full.
MaxShown == 2

\* [attr, code] of a chunk whose attributes repeat a key: a chunk with a
\* source error.
DuplicateKeyPayload ==
    << <<"", <<"cb.run">>, << <<"session", StrV("s")>>, <<"session", StrV("t")>> >> >>, "x" >>

ShownPayloads == {ChunkPayload("cb.run", FALSE), DuplicateKeyPayload}

\* The show items of the outputs: code as code, stdout and stderr as raw
\* markup.
ShowItems == { <<"code", "verbatim">>, <<"stdout", "raw">>, <<"stderr", "raw">> }

RECURSIVE ShowValues(_)
\* The show mappings of at most n items: a mapping holds a channel once.
ShowValues(n) ==
    IF n = 0 THEN { <<>> }
    ELSE LET shorter == ShowValues(n - 1)
             longer == {Append(sh, item) : sh \in shorter, item \in ShowItems}
         IN shorter \cup
            {sh \in longer : \A i, j \in 1..Len(sh) : i < j => sh[i][1] # sh[j][1]}

\* The results a chunk can have when it is spliced.
ShownResults ==
    [show : ShowValues(MaxOut), lines : {{}, {"stdout", "stderr"}},
     runtime_source_error : BOOLEAN]

CodeNodeCount == Cardinality({n \in DOMAIN nodes : nodes[n].t \in CodeKinds})

\* The locations the equal-count branch of _load_and_process_initial_ast
\* gives the chunks of a single source (named 1) in which the i-th chunk is
\* alone on line i: an inline chunk has the line of its marker, a block
\* chunk the next one.
LocatedChunks(chunks) ==
    [i \in 1..Len(chunks) |->
        [chunks[i] EXCEPT !.source_name = 1,
                          !.source_start_line_number = IF chunks[i].inline THEN i ELSE i + 1]]

\* _extract_code_chunks on that source
ExtractLocatedChunks ==
    /\ sphase = "parse"
    /\ Len(open) = 1
    /\ code_chunks' = LocatedChunks(ExtractedChunks)
    /\ sphase' = "chunks"
    /\ UNCHANGED <<heapVars, order>>

OutputStep ==
    \/ /\ sphase = "parse" /\ ~InlineList(Top)
       /\ Cardinality({n \in DOMAIN nodes : nodes[n].t = "Para"}) < 2
       /\ AddNode("Para", PlainPayload("Para"))
       /\ UNCHANGED spliceVars
    \/ \E p \in ShownPayloads :
          /\ sphase = "parse" /\ InlineList(Top) /\ CodeNodeCount < MaxShown
          /\ AddNode("Code", p)
          /\ UNCHANGED spliceVars
    \/ \E p \in ShownPayloads :
          /\ sphase = "parse" /\ ~InlineList(Top) /\ CodeNodeCount < MaxShown
          /\ AddNode("CodeBlock", p)
          /\ UNCHANGED spliceVars
    \/ sphase = "parse" /\ CloseList /\ UNCHANGED spliceVars
    \/ ExtractLocatedChunks
    \/ \E results \in ShownResults : UpdateParentNode(results)

\* The output nodes the j-th call of update_parent_node put into the tree.
OutputsOf(j) == [i \in 1..Len(order[j].out_ids) |-> nodes[order[j].out_ids[i]]]

\* C15: a chunk whose source_errors is not empty when its output is built
\* has exactly one output node: a Code node for an inline chunk, a CodeBlock
\* for a block chunk, with the class sourceError, whose text names the
\* chunk's source name and line and holds every error of the list; the
\* chunk has no node for a show channel.
C15_SourceErrorIsTheOnlyOutput ==
    \A j \in 1..Len(order) :
        LET chunk == code_chunks[order[j].chunk]
        IN chunk.source_errors # <<>> =>
              /\ order[j].outputs = 1
              /\ order[j].out_ids[1] \in DOMAIN nodes
              /\ LET node == OutputsOf(j)[1]
                 IN /\ node.t = (IF chunk.inline THEN "Code" ELSE "CodeBlock")
                    /\ node.p[1][2] = <<"sourceError">>
                    /\ node.p[2].source_name = chunk.source_name
                    /\ node.p[2].line = chunk.source_start_line_number
                    /\ node.p[2].joined = chunk.source_errors

\* Reached: an inline and a block chunk with source errors, both spliced,
\* one of them with results that show two channels.
C15_Witness ==
    /\ Len(order) = 2
    /\ \A j \in 1..2 : code_chunks[order[j].chunk].source_errors # <<>>
    /\ code_chunks[1].inline # code_chunks[2].inline
    /\ \A j \in 1..2 : nodes[order[j].out_ids[1]].p[2].source_name = 1

\* The ids of the nodes the calls of update_parent_node made.
OutputIds ==
    {n \in DOMAIN nodes : \E j \in 1..Len(order) : \E i \in 1..Len(order[j].out_ids) :
                             order[j].out_ids[i] = n}
AllSpliced == sphase = "chunks" /\ Len(order) = Len(code_chunks)
MergingPair(a, b) ==
    \/ nodes[a].t \in {"RawInline", "RawBlock"} /\ nodes[b].t \in {"RawInline", "RawBlock"}
    \/ nodes[a].t = "Code" /\ nodes[b].t = "Code"

\* C18: after every chunk is spliced, no list of the tree holds two output
\* raw nodes next to each other, nor two inline Code output nodes next to
\* each other, whether the two are of one chunk or of neighbouring chunks.
C18_NoAdjacentOutputs ==
    AllSpliced =>
        \A l \in DOMAIN lists : \A i \in 1..(Len(lists[l]) - 1) :
            (lists[l][i] \in OutputIds /\ lists[l][i + 1] \in OutputIds)
                => ~MergingPair(lists[l][i], lists[l][i + 1])

\* An inline chunk that asks for example mode where it may not: its parent
\* is no Plain or Para, or is the synthetic node of a definition term, or
\* the parent's list holds a sibling of the chunk.
AsksExampleMisplaced(chunk) ==
    /\ chunk.inline
    /\ OptionExample(nodes[chunk.node])
    /\ \/ chunk.parent_node < 0
       \/ nodes[chunk.parent_node].t \notin {"Plain", "Para"}
       \/ lists[chunk.parent_node_list] # <<chunk.node>>

ExampleRefused(chunk) ==
    /\ ~chunk.example
    /\ chunk.source_errors # <<>>
    /\ chunk.source_errors[1] = <<"Misplaced", "example">>

C2_ReverseSpliceKeepsIndices ==
    /\ \A j \in 1..Len(order) :
          /\ order[j].chunk = Len(code_chunks) - j + 1
          /\ order[j].slot_held_node
    /\ \A i \in 1..Len(code_chunks) :
          (\A j \in 1..Len(order) : order[j].chunk # i) => SlotHoldsNode(code_chunks[i])

\* Reached: two chunks of one list, the later one spliced with a number of
\* output nodes that changes the list's length, and a chunk in example mode
\* spliced before the earlier chunks of the tree.
C2_Witness ==
    /\ Len(code_chunks) >= 2
    /\ Len(order) >= 1
    /\ \E j \in 1..Len(order), i \in 1..Len(code_chunks) :
          /\ i < order[j].chunk
          /\ code_chunks[i].parent_node_list = code_chunks[order[j].chunk].parent_node_list
          /\ order[j].outputs # 1
    /\ \E j \in 1..Len(order) : code_chunks[order[j].chunk].example

\* C30: a non-example splice by update_parent_node replaces the one slot at
\* the chunk's recorded index with the chunk's output nodes: the elements
\* before the index are unchanged, the elements after it are kept in their
\* order, and the length of the list changes by the number of output nodes
\* minus one; a block example splice replaces that slot by one new Div and
\* leaves the length of the list unchanged.  No other list of the tree is
\* changed by either.
C30_SpliceFrame ==
    [][(Len(order') = Len(order) + 1 /\ sphase' # "error") =>
          LET spliced == order'[Len(order')]
              chunk == code_chunks[spliced.chunk]
              pl == chunk.parent_node_list
              index == chunk.parent_node_list_index
              k == spliced.outputs
              before == lists[pl]
              after == lists'[pl]
          IN IF ~chunk.example
             THEN /\ index < Len(before)
                  /\ Len(after) = Len(before) + k - 1
                  /\ SubSeq(after, 1, index) = SubSeq(before, 1, index)
                  /\ SubSeq(after, index + 1, index + k) = spliced.out_ids
                  /\ \A i \in 1..k : spliced.out_ids[i] \notin DOMAIN nodes
                  /\ SubSeq(after, index + k + 1, Len(after))
                        = SubSeq(before, index + 2, Len(before))
                  /\ \A l \in DOMAIN lists : l # pl => lists'[l] = lists[l]
             ELSE IF ~chunk.inline
             THEN /\ index < Len(before)
                  /\ Len(after) = Len(before)
                  /\ \A i \in 1..Len(before) : i # index + 1 => after[i] = before[i]
                  /\ after[index + 1] \notin DOMAIN nodes
                  /\ nodes'[after[index + 1]].t = "Div"
                  /\ \A l \in DOMAIN lists : l # pl => lists'[l] = lists[l]
             ELSE TRUE]_vars

\* Reached: the first splice put two output nodes in the place of a chunk
\* that is no example and has an element before it and one after it.
C30_Witness ==
    /\ Len(order) = 1 /\ sphase = "chunks"
    /\ order[1].outputs = 2
    /\ LET chunk == code_chunks[order[1].chunk]
       IN /\ ~chunk.example
          /\ chunk.parent_node_list_index >= 1
          /\ Len(lists[chunk.parent_node_list]) = chunk.parent_node_list_index + 3
          /\ SubSeq(lists[chunk.parent_node_list], chunk.parent_node_list_index + 1,
                    chunk.parent_node_list_index + 2) = order[1].out_ids

\* ------------------------------------------------- sources and their tree
\* The input is written one construct at a time.  A construct takes one line
\* of its source and gives the text its '.cb.' occurrences and the tree its
\* code or raw node.  Nodes outside notes keep the order of the text; a node
\* inside a note stands where the note is referenced.  Any node may be
\* inside a note, so a new node may stand anywhere in the tree of its
\* source, and the tree order is the text order exactly when no note moved
\* a node.
\* The most constructs in the sources together, and the most of them that
\* are not chunks with a marker.
MaxConstructs == 3
MaxExtras == 1

\* (src_name, (index, line_number, maybe_codebraid_attr, command)): one
\* result of _find_cb_command on a source; index is told by the line here.
Occurrence(src, line, maybe, command) ==
    [src |-> src, index |-> line, line |-> line, maybe |-> maybe, command |-> command]

\* A node of code_raw_node_tuples:
\*   t        the kind                   src      the source it came from
\*   cb       whether a class starts with 'cb.' (a chunk)
\*   command  the chunk's command
\*   node_cb  _find_cb_command(node['c'][1]), as <<maybe, command>> pairs
\*   eof      whether it is the raw node <!--codebraid.eof-->
\*   own      the line of the chunk's own marker in its source (NoLine: none)
\*   parsed   the kind the parse gave it (t changes when the node is frozen)
TreeNode(t, src, cb, command, node_cb, own) ==
    [t |-> t, src |-> src, cb |-> cb, command |-> command, node_cb |-> node_cb,
     eof |-> FALSE, own |-> own, parsed |-> t]

\* {'t': 'RawBlock', 'c': ['html', '<!--codebraid.eof-->']}
EofNode(src) ==
    [t |-> "RawBlock", src |-> src, cb |-> FALSE, command |-> None, node_cb |-> <<>>,
     eof |-> TRUE, own |-> NoLine, parsed |-> "RawBlock"]

CurSrc == Len(src_lines)
NextLine == src_lines[CurSrc] + 1
Constructs == IF CurSrc = 1 THEN src_lines[1] ELSE src_lines[1] + src_lines[2]
\* Chunks with a marker give one occurrence and one node with that `own`.
Extras ==
    Constructs - Cardinality({i \in 1..Len(tree) : tree[i].cb /\ tree[i].own # NoLine})

\* Where a new node may stand: in the tree of the current source.
InsertPositions ==
    {p \in 0..Len(tree) :
        \A i \in 1..Len(tree) : (i > p) => tree[i].src = CurSrc /\ ~tree[i].eof}

InsertAt(seq, p, x) == SubSeq(seq, 1, p) \o <<x>> \o SubSeq(seq, p + 1, Len(seq))

Written ==
    /\ src_lines' = [src_lines EXCEPT ![CurSrc] = @ + 1]
    /\ UNCHANGED mode

\* `code`{.cb.command} or a fenced block with {.cb.command}
AddChunk(command, inline, p) ==
    /\ Constructs < MaxConstructs
    /\ p \in InsertPositions
    /\ text' = Append(text, Occurrence(CurSrc, NextLine, TRUE, command))
    /\ tree' = InsertAt(tree, p,
                  TreeNode(IF inline THEN "Code" ELSE "CodeBlock", CurSrc, TRUE,
                           command, <<>>, NextLine))
    /\ Written

\* `code`{class="cb.command"}: the class without '.cb.' in the text
AddMarkerlessChunk(command, p) ==
    /\ Constructs < MaxConstructs /\ Extras < MaxExtras
    /\ p \in InsertPositions
    /\ tree' = InsertAt(tree, p,
                  TreeNode("Code", CurSrc, TRUE, command, <<>>, NoLine))
    /\ UNCHANGED text
    /\ Written

\* The node kinds whose contents can hold '.cb.command' text, with the flag
\* the occurrence gets in the source and in the node's contents:
\*   an HTML comment with a commented-out chunk, inline or as a block;
\*   inline code `x.cb.command`; a code block whose code starts with
\*   ' .cb.command' (fewer than 4 characters before it in the contents).
ContentMarkers ==
    { [t |-> "RawInline", src_maybe |-> TRUE, node_maybe |-> TRUE],
      [t |-> "RawBlock", src_maybe |-> TRUE, node_maybe |-> TRUE],
      [t |-> "Code", src_maybe |-> FALSE, node_maybe |-> FALSE],
      [t |-> "CodeBlock", src_maybe |-> TRUE, node_maybe |-> FALSE] }

\* A code or raw node that is no chunk and has '.cb.command' in its contents
AddContentMarker(cm, command, p) ==
    /\ Constructs < MaxConstructs /\ Extras < MaxExtras
    /\ p \in InsertPositions
    /\ text' = Append(text, Occurrence(CurSrc, NextLine, cm.src_maybe, command))
    /\ tree' = InsertAt(tree, p,
                  TreeNode(cm.t, CurSrc, FALSE, None, << <<cm.node_maybe, command>> >>,
                           NoLine))
    /\ Written

\* '.cb.command' in running text: an occurrence without a code or raw node
AddProse(command, maybe) ==
    /\ Constructs < MaxConstructs /\ Extras < MaxExtras
    /\ text' = Append(text, Occurrence(CurSrc, NextLine, maybe, command))
    /\ UNCHANGED tree
    /\ Written

\* A second source.  Concatenated sources each end with the end-of-file
\* comment (PandocConverter.__init__); with pandoc_file_scope they are
\* loaded one by one.
AddSource(m) ==
    /\ CurSrc = 1
    /\ src_lines[1] > 0
    /\ mode' = m
    /\ src_lines' = <<src_lines[1], 0>>
    /\ tree' = IF m = "concat" THEN Append(tree, EofNode(1)) ELSE tree
    /\ UNCHANGED text

DocInit ==
    /\ mode = "single"
    /\ src_lines = <<0>>
    /\ text = <<>>
    /\ tree = <<>>

\* ------------------------------ _load_and_process_initial_ast: the matcher
Reverse(seq) == [i \in 1..Len(seq) |-> seq[Len(seq) - i + 1]]

\* The tree nodes (as indices into tree) that the call for source c walks:
\* all of them for the concatenated sources (c = 0).
CallNodes(c) ==
    SelectSeq([i \in 1..Len(tree) |-> i], LAMBDA i : c = 0 \/ tree[i].src = c)

\* What a pop looks for: the command, and where check_flag, the flag too.
Want(command, check_flag, maybe) ==
    [command |-> command, check_flag |-> check_flag, maybe |-> maybe]

Matches(occ, want) ==
    /\ occ.command = want.command
    /\ want.check_flag => occ.maybe = want.maybe

\* The state of the stack and the skip buffer while one node is handled.
Handling(stack, skip_buffer) ==
    [stack |-> stack, skipped |-> skip_buffer, raised |-> FALSE,
     last |-> Occurrence(NoName, NoLine, FALSE, None), taken |-> {},
     pushed_back |-> FALSE]

RECURSIVE PopMatch(_, _)
\* src_cb_i = sources_cb.pop(), then `while <mismatch>:
\* skipped.append(src_cb_i); src_cb_i = sources_cb.pop()`.  A pop from the
\* empty list raises IndexError.
PopMatch(h, want) ==
    IF h.stack = <<>> THEN [h EXCEPT !.raised = TRUE]
    ELSE LET src_cb_i == h.stack[Len(h.stack)]
             rest == SubSeq(h.stack, 1, Len(h.stack) - 1)
         IN IF Matches(src_cb_i, want)
            THEN [h EXCEPT !.stack = rest, !.last = src_cb_i,
                           !.taken = @ \cup {src_cb_i}]
            ELSE PopMatch([h EXCEPT !.stack = rest,
                                    !.skipped = Append(@, src_cb_i)], want)

PushBackUnreversed(h) ==
    [h EXCEPT !.stack = @ \o h.skipped, !.skipped = <<>>,
              !.pushed_back = (@ \/ h.skipped # <<>>)]
\* `if skipped: while skipped: sources_cb.append(skipped.pop())`
PushBack(h) ==
    [h EXCEPT !.stack = @ \o Reverse(h.skipped), !.skipped = <<>>,
              !.pushed_back = (@ \/ h.skipped # <<>>)]

RECURSIVE MatchMarkers(_, _, _, _)
\* `for _, _, node_maybe_codebraid, node_command in node_cb:` from the i-th
\* marker on; the flag is compared for block nodes only.
MatchMarkers(h, node_cb, i, block) ==
    IF i > Len(node_cb) \/ h.raised THEN h
    ELSE MatchMarkers(PopMatch(h, Want(node_cb[i][2], block, node_cb[i][1])),
                      node_cb, i + 1, block)

\* A location that is the marker's line for block chunks too
LocatedOnMarkerLine(chunk, occ) ==
    [chunk EXCEPT !.source_name = occ.src, !.source_start_line_number = occ.line]

\* chunk.source_name and chunk.source_start_line_number from an occurrence
Located(chunk, occ) ==
    [chunk EXCEPT !.source_name = occ.src,
                  !.source_start_line_number =
                      IF chunk.inline THEN occ.line ELSE occ.line + 1]

\* What follows the return of a call: the next source's call under
\* pandoc_file_scope, otherwise the return of _extract_code_chunks.
Returned == IF mode = "file_scope" /\ call < CurSrc THEN "called" ELSE "extracted"

MatchInit ==
    /\ DocInit
    /\ mphase = "parse"
    /\ call = 0
    /\ branch = "equal"
    /\ cursor = 1
    /\ chunk_iter = 0
    /\ sources_cb = <<>>
    /\ skipped = <<>>
    /\ source_names_stack = <<>>
    /\ matched = {}
    /\ purged = {}
    /\ exhausted = FALSE
    /\ did_skip = FALSE

\* The start of _load_and_process_initial_ast, up to the choice of the
\* branch: the chunks of the walked tree are appended to self.code_chunks
\* and the occurrence stack is built from the source(s) of this call.
LoadBegin ==
    /\ \/ mphase = "parse"
       \/ mphase = "called"
    /\ LET c == IF mphase = "called" THEN call + 1
                ELSE IF mode = "concat" THEN 0 ELSE 1
           whole == IF mode = "concat" /\ mphase = "parse"
                    THEN Append(tree, EofNode(CurSrc)) ELSE tree
           walk == SelectSeq([i \in 1..Len(whole) |-> i],
                             LAMBDA i : c = 0 \/ whole[i].src = c)
           cb == SelectSeq(walk, LAMBDA i : whole[i].cb)
           new_chunks == [k \in 1..Len(cb) |->
                             [node |-> cb[k], command |-> whole[cb[k]].command,
                              inline |-> whole[cb[k]].t = "Code",
                              source_name |-> NoName,
                              source_start_line_number |-> NoLine]]
           occs == SelectSeq(text, LAMBDA o : c = 0 \/ o.src = c)
           all_chunks == code_chunks \o new_chunks
           b == IF Len(occs) = Len(all_chunks) THEN "equal" ELSE "differing"
       IN /\ tree' = whole
          /\ call' = c
          /\ code_chunks' = all_chunks
          /\ sources_cb' = Reverse(occs)
          /\ source_names_stack' = IF c = 0 THEN Reverse([i \in 1..CurSrc |-> i]) ELSE <<c>>
          /\ branch' = b
          /\ mphase' = IF b = "differing" /\ walk = <<>>
                       THEN (IF mode = "file_scope" /\ c < CurSrc
                             THEN "called" ELSE "extracted")
                       ELSE "match"
    /\ cursor' = 1
    /\ chunk_iter' = 0
    /\ skipped' = <<>>
    /\ matched' = {}
    /\ purged' = {}
    /\ UNCHANGED <<mode, src_lines, text, exhausted, did_skip, sphase, order>>

\* One iteration of `for chunk in self.code_chunks:` in the equal-count branch
EqualChunk ==
    /\ mphase = "match" /\ branch = "equal"
    /\ cursor <= Len(code_chunks)
    /\ LET chunk == code_chunks[cursor]
           h == PopMatch(Handling(sources_cb, skipped), Want(chunk.command, FALSE, FALSE))
           done == PushBack(h)
       IN IF h.raised
          THEN /\ mphase' = "error"
               /\ exhausted' = TRUE
               /\ sources_cb' = h.stack
               /\ skipped' = h.skipped
               /\ UNCHANGED <<code_chunks, matched, did_skip, cursor>>
          ELSE /\ code_chunks' = [code_chunks EXCEPT ![cursor] = Located(chunk, h.last)]
               /\ sources_cb' = done.stack
               /\ skipped' = done.skipped
               /\ matched' = matched \cup h.taken
               /\ did_skip' = (did_skip \/ done.pushed_back)
               /\ cursor' = cursor + 1
               /\ UNCHANGED <<mphase, exhausted>>
    /\ UNCHANGED <<docVars, call, branch, chunk_iter, source_names_stack, purged,
                   sphase, order>>

\* The second loop of the equal-count branch: the end-of-file markers of
\* concatenated sources become Null, every other raw node is frozen; the
\* call returns.
EqualFreeze ==
    /\ mphase = "match" /\ branch = "equal"
    /\ cursor > Len(code_chunks)
    /\ tree' = [i \in 1..Len(tree) |->
                  IF (call = 0 \/ tree[i].src = call) /\ tree[i].t \in RawKinds
                  THEN IF call = 0 /\ tree[i].eof
                       THEN [tree[i] EXCEPT !.t = "Null"]
                       ELSE [tree[i] EXCEPT !.t = FreezeType(@)]
                  ELSE tree[i]]
    /\ mphase' = Returned
    /\ UNCHANGED <<mode, src_lines, text, call, branch, cursor, chunk_iter, sources_cb,
                   skipped, source_names_stack, matched, purged, exhausted, did_skip,
                   spliceVars>>

RECURSIVE PurgeSource(_, _)
\* `while sources_cb and sources_cb[-1][0] == current_source_name:
\* sources_cb.pop()`
PurgeSource(stack, current_source_name) ==
    IF stack # <<>> /\ stack[Len(stack)].src = current_source_name
    THEN PurgeSource(SubSeq(stack, 1, Len(stack) - 1), current_source_name)
    ELSE stack

ElementsOf(seq) == {seq[i] : i \in 1..Len(seq)}

\* One iteration of `for node_tuple in code_raw_node_tuples:` in the
\* differing-count branch.
DiffNode ==
    /\ mphase = "match" /\ branch = "differing"
    /\ cursor <= Len(CallNodes(call))
    /\ LET n == CallNodes(call)[cursor]
           node == tree[n]
           block == node.t \in {"CodeBlock", "RawBlock"}
           after == IF cursor = Len(CallNodes(call)) THEN Returned ELSE "match"
       IN IF call = 0 /\ node.t \in RawKinds /\ node.eof
          THEN \* the end-of-file marker of concatenated sources
               LET current_source_name == source_names_stack[Len(source_names_stack)]
                   kept == PurgeSource(sources_cb, current_source_name)
               IN /\ tree' = [tree EXCEPT ![n].t = "Null"]
                  /\ source_names_stack' =
                        SubSeq(source_names_stack, 1, Len(source_names_stack) - 1)
                  /\ sources_cb' = kept
                  /\ purged' = purged \cup (ElementsOf(sources_cb) \ ElementsOf(kept))
                  /\ mphase' = after
                  /\ UNCHANGED <<code_chunks, chunk_iter, skipped, matched, exhausted,
                                 did_skip>>
          ELSE LET h0 == Handling(sources_cb, skipped)
                   \* inline: code comes before attr
                   m1 == MatchMarkers(h0, node.node_cb, 1, FALSE)
                   h1 == IF node.node_cb # <<>> /\ ~block
                         THEN (IF m1.raised THEN m1 ELSE PushBack(m1))
                         ELSE h0
                   \* id(node) in codebraid_node_set
                   is_chunk == node.cb /\ ~h1.raised
                   chunk == code_chunks[chunk_iter + 1]
                   m2 == PopMatch(h1, Want(chunk.command, TRUE, TRUE))
                   h2 == IF is_chunk
                         THEN (IF m2.raised THEN m2 ELSE PushBack(m2))
                         ELSE h1
                   \* block: code comes after attr
                   m3 == MatchMarkers(h2, node.node_cb, 1, TRUE)
                   h3 == IF node.node_cb # <<>> /\ block /\ ~h2.raised
                         THEN (IF m3.raised THEN m3 ELSE PushBack(m3))
                         ELSE h2
               IN /\ code_chunks' =
                        IF is_chunk /\ ~m2.raised
                        THEN [code_chunks EXCEPT ![chunk_iter + 1] = Located(chunk, m2.last)]
                        ELSE code_chunks
                  /\ chunk_iter' = IF is_chunk THEN chunk_iter + 1 ELSE chunk_iter
                  /\ sources_cb' = h3.stack
                  /\ skipped' = h3.skipped
                  /\ matched' = matched \cup h3.taken
                  /\ did_skip' = (did_skip \/ h3.pushed_back)
                  /\ exhausted' = (exhausted \/ h3.raised)
                  /\ mphase' = IF h3.raised THEN "error" ELSE after
                  /\ tree' = IF ~h3.raised /\ node.t \in RawKinds
                             THEN [tree EXCEPT ![n].t = FreezeType(@)]
                             ELSE tree
                  /\ UNCHANGED <<source_names_stack, purged>>
    /\ cursor' = cursor + 1
    /\ UNCHANGED <<mode, src_lines, text, call, branch, sphase, order>>

\* code_braid after _extract_code_chunks returned: _process_code_chunks and
\* _postprocess_code_chunks.  An exception in _extract_code_chunks leaves
\* code_braid before they are called.
LaterPhases ==
    /\ mphase = "extracted"
    /\ mphase' = "finished"
    /\ UNCHANGED <<docVars, call, branch, cursor, chunk_iter, sources_cb, skipped,
                   source_names_stack, matched, purged, exhausted, did_skip, spliceVars>>

\* Whether a chunk of the sources is inline or a block decides nothing but
\* the line it is given (Located); the `run` chunks are written inline,
\* the `code` chunks as blocks.
InlineFor(command) == command = "run"

\* The command of the one construct that is not a chunk with its marker:
\* the chunks around it take either command, so the other choice gives the
\* same runs with the two commands exchanged.
ExtraCommands == {"run"}

MatchStep ==
    \/ /\ mphase = "parse"
       /\ \E command \in SupportedCommands, p \in 0..MaxConstructs + 2 :
             AddChunk(command, InlineFor(command), p)
       /\ UNCHANGED <<matchVars, spliceVars>>
    \/ /\ mphase = "parse"
       /\ \E command \in ExtraCommands, p \in 0..MaxConstructs + 2 :
             AddMarkerlessChunk(command, p)
       /\ UNCHANGED <<matchVars, spliceVars>>
    \/ /\ mphase = "parse"
       /\ \E cm \in ContentMarkers, command \in ExtraCommands,
             p \in 0..MaxConstructs + 2 : AddContentMarker(cm, command, p)
       /\ UNCHANGED <<matchVars, spliceVars>>
    \/ /\ mphase = "parse"
       /\ \E command \in ExtraCommands, maybe \in BOOLEAN : AddProse(command, maybe)
       /\ UNCHANGED <<matchVars, spliceVars>>
    \/ /\ mphase = "parse"
       /\ \E m \in {"concat", "file_scope"} : AddSource(m)
       /\ UNCHANGED <<matchVars, spliceVars>>
    \/ LoadBegin
    \/ EqualChunk
    \/ EqualFreeze
    \/ DiffNode
    \/ LaterPhases

\* ------------------------------------------------- claims on the matcher
Completed == mphase \in {"extracted", "finished"}

\* The chunk has the source name and line number of its own marker: the
\* marker's line for an inline chunk, the following line for a block chunk.
HasOwnLocation(chunk) ==
    /\ tree[chunk.node].own # NoLine
    /\ chunk.source_name = tree[chunk.node].src
    /\ chunk.source_start_line_number =
          IF chunk.inline THEN tree[chunk.node].own ELSE tree[chunk.node].own + 1

\* Every construct of the sources is a chunk with its marker.
OnlyMarkedChunks ==
    /\ Len(text) = Len(tree)
    /\ \A i \in 1..Len(tree) : tree[i].cb /\ tree[i].own # NoLine

\* C1 (as claimed): for a document whose marker occurrences are exactly the
\* markers of its chunks, some of them inside notes, the matcher gives every
\* chunk the line of its own marker, for every placement of the notes and
\* every combination of commands.
C1_OwnMarkerLines ==
    (mode = "single" /\ Completed /\ OnlyMarkedChunks) =>
        /\ branch = "equal"
        /\ \A i \in 1..Len(code_chunks) : HasOwnLocation(code_chunks[i])

\* C5 (as claimed): when the occurrence stack is exhausted while a chunk or a
\* content marker still has no occurrence, the run ends in the error
\* outcome and no later phase runs; reconciliation never completes normally
\* with a chunk whose source name or line number is still null.
C5_ExhaustionIsFatal ==
    /\ exhausted => mphase = "error"
    /\ Completed =>
          \A i \in 1..Len(code_chunks) :
              /\ code_chunks[i].source_name # NoName
              /\ code_chunks[i].source_start_line_number # NoLine

TextPos(occ) == CHOOSE k \in 1..Len(text) : text[k] = occ

\* The stack holds its occurrences in text order, the earliest on top.
StackInTextOrder ==
    \A i, j \in 1..Len(sources_cb) :
        i < j => TextPos(sources_cb[i]) > TextPos(sources_cb[j])

CallOccurrences == {occ \in ElementsOf(text) : call = 0 \/ occ.src = call}

BetweenNodes == mphase \in {"match", "called", "extracted", "finished"}

\* C6 (as claimed): between two nodes the skip buffer is empty and the
\* stack is in its original relative order, and every occurrence that is
\* no longer on the stack was matched to a chunk or to a content marker.
C6_NothingLeavesUnmatched ==
    BetweenNodes =>
        /\ skipped = <<>>
        /\ StackInTextOrder
        /\ \A occ \in CallOccurrences :
              occ \in ElementsOf(sources_cb) \/ occ \in matched

\* C6 (amended): as above, except that an occurrence may also have been
\* purged: in the differing-count branch on concatenated sources, the
\* end-of-file marker of a source drops the occurrences of that source that
\* are still on top of the stack.
C6_NothingLeavesUnmatchedOrPurged ==
    /\ BetweenNodes =>
          /\ skipped = <<>>
          /\ StackInTextOrder
          /\ \A occ \in CallOccurrences :
                occ \in ElementsOf(sources_cb) \/ occ \in matched \/ occ \in purged
    /\ purged # {} =>
          /\ branch = "differing" /\ mode = "concat"
          /\ \A occ \in purged :
                /\ occ \notin matched
                /\ occ.src \notin ElementsOf(source_names_stack)

\* Reached: a run that skipped occurrences and pushed them back, purged an
\* occurrence at an end-of-file marker, and completed.
C6_Witness ==
    /\ Completed
    /\ did_skip
    /\ purged # {}

\* Scenario D: one source whose only construct besides chunks with their
\* markers is one raw HTML comment node holding a commented-out marker.
ScenarioD ==
    /\ mode = "single"
    /\ Len(text) = Len(tree)
    /\ \E c \in 1..Len(tree) :
          /\ ~tree[c].cb /\ tree[c].parsed \in RawKinds /\ tree[c].node_cb # <<>>
          /\ \A i \in 1..Len(tree) : i # c => tree[i].cb /\ tree[i].own # NoLine

\* C7 (as claimed): in scenario D the differing-count branch excludes the
\* commented-out occurrence and every genuine chunk gets the source name
\* and line of its own marker, wherever the comment node sits.
C7_CommentExcluded ==
    (ScenarioD /\ mphase # "parse") =>
        /\ branch = "differing"
        /\ mphase # "error"
        /\ Completed =>
              \A i \in 1..Len(code_chunks) : HasOwnLocation(code_chunks[i])

\* The calls of _load_and_process_initial_ast that have returned walked the
\* nodes of these sources.
Processed(node) ==
    \/ Completed
    \/ mphase = "called" /\ node.src <= call

\* C24: when _load_and_process_initial_ast has returned, in either branch,
\* the nodes it walked hold no RawBlock or RawInline node: every node
\* parsed as a raw node has the code kind of its freeze, or, for the
\* end-of-file marker of concatenated sources, is a Null node; this is so
\* before the later phases (the round trip through pandoc) run.
C24_NoRawNodeLeft ==
    \A i \in 1..Len(tree) :
        Processed(tree[i]) =>
            /\ tree[i].t \notin RawKinds
            /\ tree[i].parsed \in RawKinds =>
                  IF tree[i].eof /\ mode = "concat"
                  THEN tree[i].t = "Null"
                  ELSE tree[i].t = (IF tree[i].parsed = "RawBlock"
                                    THEN "CodeBlock" ELSE "Code")
            /\ tree[i].parsed \notin RawKinds => tree[i].t = tree[i].parsed

\* Reached: concatenated sources in the differing-count branch, returned
\* and not yet round-tripped, with a frozen raw block, and the end-of-file
\* markers turned into Null nodes.
C24_Witness ==
    /\ mphase = "extracted" /\ mode = "concat" /\ branch = "differing"
    /\ \E i \in 1..Len(tree) : tree[i].parsed = "RawBlock" /\ tree[i].t = "CodeBlock"
    /\ \E i \in 1..Len(tree) : tree[i].eof /\ tree[i].t = "Null"

\* The loop over the chunks of the equal-count branch has ended without an
\* exception.
EqualCompleted ==
    /\ branch = "equal"
    /\ \/ mphase \in {"called", "extracted", "finished"}
       \/ mphase = "match" /\ cursor > Len(code_chunks)

\* The occurrences of this call that the chunk's source name and line
\* number are those of.
AssignedTo(chunk) ==
    {occ \in CallOccurrences :
        /\ chunk.source_name = occ.src
        /\ chunk.source_start_line_number =
              IF chunk.inline THEN occ.line ELSE occ.line + 1}

\* C26: when the equal-count branch completes normally, every chunk has
\* exactly one occurrence, no occurrence belongs to two chunks, the
\* occurrence's command is the chunk's command, the chunk's line is the
\* occurrence's line (inline) or that line plus one (block), every
\* occurrence was taken, and the stack and the skip buffer are empty.
C26_EqualBranchAssignsAll ==
    EqualCompleted =>
        /\ \A i \in 1..Len(code_chunks) :
              /\ Cardinality(AssignedTo(code_chunks[i])) = 1
              /\ \A occ \in AssignedTo(code_chunks[i]) :
                    /\ occ.command = code_chunks[i].command
                    /\ occ \in matched
        /\ \A i, j \in 1..Len(code_chunks) :
              i # j => AssignedTo(code_chunks[i]) \cap AssignedTo(code_chunks[j]) = {}
        /\ matched = CallOccurrences
        /\ sources_cb = <<>>
        /\ skipped = <<>>

\* Reached: the equal-count branch completed for an inline chunk and a
\* block chunk after occurrences were skipped and pushed back.
C26_Witness ==
    /\ EqualCompleted /\ Completed /\ did_skip
    /\ \E i, j \in 1..Len(code_chunks) :
          code_chunks[i].inline /\ ~code_chunks[j].inline

\* Every chunk has a source name and a line number.
AllAssigned ==
    \A i \in 1..Len(code_chunks) :
        /\ code_chunks[i].source_name # NoName
        /\ code_chunks[i].source_start_line_number # NoLine

\* The run has ended: with the exception of a pop from the empty stack, or
\* after the later phases.
Ended == mphase \in {"error", "finished"}

\* Once the sources are loaded the run ends, and no skip buffer ever holds
\* more occurrences than the call has.
ReconciliationTerminates ==
    /\ <>Ended
    /\ [](Len(skipped) <= Cardinality(CallOccurrences))

\* C27 (as claimed): reconciliation terminates in both branches, and the
\* run ends either with all chunks assigned or with the fatal error.
C27_EndsAssignedOrFatal ==
    <>(mphase = "error" \/ (mphase = "finished" /\ AllAssigned))

\* -------------------------------------------------- the scan for '.cb.'
\* A text is a sequence of characters, indexed from 0 as Python does.
\* text[i:i+1]: the empty string past the end
CharAt(text_, i) == IF 0 <= i /\ i < Len(text_) THEN text_[i + 1] ELSE ""

\* text[i:j], for 0 <= i
Slice(text_, i, j) == SubSeq(text_, i + 1, IF j < Len(text_) THEN j ELSE Len(text_))

Marker == <<".", "c", "b", ".">>

\* text[i:i+4] == '.cb.'
MarkerAt(text_, i) == i + 4 <= Len(text_) /\ Slice(text_, i, i + 4) = Marker

\* text.find('.cb.', start_index)
TextFind(text_, start_index) ==
    LET found == {i \in start_index..(Len(text_) - 4) : MarkerAt(text_, i)}
    IN IF found = {} THEN -1 ELSE CHOOSE i \in found : \A j \in found : i <= j

CountNewlinesNever(text_, i, j) == 0

\* text.count('\n', i, j)
CountNewlines(text_, i, j) == Cardinality({k \in i..(j - 1) : CharAt(text_, k) = "\n"})

\* CodeChunk.commands, as character sequences, and the defaults of the
\* keyword parameters
commands_set == {<<"c", "o", "d", "e">>, <<"r", "u", "n">>}
max_command_len == 4
before_attr_chars_wide == {"{", " ", "\t", "\n", "x"}
before_attr_chars == {"{", " ", "\t", "\n"}
after_attr_chars == {"}", " ", "\t", "\n"}

RECURSIVE CommandEnd(_, _, _)
\* `for _ in range(max_command_len + 1)` with n rounds left: the index of
\* the first character of after_attr_chars, or -1 (the else of the for)
CommandEnd(text_, maybe_end_cb_command_index, n) ==
    IF n = 0 THEN -1
    ELSE IF CharAt(text_, maybe_end_cb_command_index) \in after_attr_chars
    THEN maybe_end_cb_command_index
    ELSE CommandEnd(text_, maybe_end_cb_command_index + 1, n - 1)

RECURSIVE FindLoop(_, _, _, _)
\* The `while True` loop of _find_cb_command.  A command is a sequence of
\* characters; the command None is written <<None>>.
FindLoop(text_, start_index, line_num_before, results) ==
    LET maybe_start_cb_command_index == TextFind(text_, start_index)
    IN IF maybe_start_cb_command_index = -1 THEN results
       ELSE
       LET line_num == line_num_before
                       + CountNewlines(text_, start_index, maybe_start_cb_command_index)
           maybe_end_cb_command_index ==
               CommandEnd(text_, maybe_start_cb_command_index + 4, max_command_len + 1)
           sliced == Slice(text_, maybe_start_cb_command_index + 4, maybe_end_cb_command_index)
           found_command == maybe_end_cb_command_index # -1 /\ sliced \in commands_set
           command == IF found_command THEN sliced ELSE <<None>>
           next_start_index ==
               IF found_command THEN maybe_end_cb_command_index
               ELSE maybe_start_cb_command_index + 4
           maybe_codebraid_attr ==
               IF \/ maybe_start_cb_command_index < 4
                  \/ CharAt(text_, maybe_start_cb_command_index - 1) \notin before_attr_chars
               THEN FALSE
               ELSE IF /\ found_command
                       /\ CharAt(text_, maybe_end_cb_command_index) \notin after_attr_chars
               THEN FALSE
               ELSE TRUE
       IN FindLoop(text_, next_start_index, line_num,
                   Append(results,
                          [index |-> maybe_start_cb_command_index, line_number |-> line_num,
                           maybe_codebraid_attr |-> maybe_codebraid_attr,
                           command |-> command]))

\* _find_cb_command(text)
find_cb_command(text_) == FindLoop(text_, 0, 1, <<>>)

\* The pieces a text is written in, and the most pieces of a text.
Pieces ==
    {Marker, <<"c", "b", ".">>, <<".">>, <<"r", "u", "n">>, <<"{">>, <<"}">>, <<"\n">>, <<"x">>,
     <<"x", "x", "x", "{">>}
MaxPieces == 4

FindInit ==
    /\ find_text = <<>>
    /\ find_pieces = 0
    /\ find_called = FALSE
    /\ find_results = <<>>

WritePiece(piece) ==
    /\ ~find_called
    /\ find_pieces < MaxPieces
    /\ find_text' = find_text \o piece
    /\ find_pieces' = find_pieces + 1
    /\ UNCHANGED <<find_called, find_results>>

CallFindCbCommand ==
    /\ ~find_called
    /\ find_called' = TRUE
    /\ find_results' = find_cb_command(find_text)
    /\ UNCHANGED <<find_text, find_pieces>>

FindStep ==
    \/ \E piece \in Pieces : WritePiece(piece)
    \/ CallFindCbCommand

\* The indices at which the text holds '.cb.'
MarkerIndices(text_) == {i \in 0..(Len(text_) - 1) : MarkerAt(text_, i)}

\* C20: _find_cb_command returns one tuple for every index at which the text
\* holds '.cb.', also for an occurrence that overlaps or directly follows
\* another one, in strictly increasing index order, no index twice.
C20_EveryOccurrenceOnce ==
    find_called =>
        /\ {find_results[k].index : k \in 1..Len(find_results)} = MarkerIndices(find_text)
        /\ \A k \in 1..(Len(find_results) - 1) :
              find_results[k].index < find_results[k + 1].index

\* C21: the line number of every occurrence _find_cb_command reports is 1
\* plus the number of newline characters of the text before the occurrence's
\* index, however many occurrences came before it, with or without a command.
C21_LineNumberCountsNewlines ==
    find_called =>
        \A k \in 1..Len(find_results) :
            find_results[k].line_number =
                1 + Cardinality({i \in 0..(find_results[k].index - 1) : find_text[i + 1] = "\n"})

\* Reached: an occurrence with a command, a newline, and a second occurrence
\* on line 2.
C21_Witness ==
    /\ find_called
    /\ Len(find_results) = 2
    /\ find_results[1].command = <<"r", "u", "n">>
    /\ find_results[1].line_number = 1
    /\ find_results[2].line_number = 2

\* The command of an occurrence was recognized
Recognized(result) == result.command # <<None>>
PrecededByAttrChar(result) ==
    result.index >= 1 /\ find_text[result.index] \in {"{", " ", "\t", "\n"}
FollowedByAttrChar(result) ==
    LET after == result.index + 4 + Len(result.command)
    IN after < Len(find_text) /\ find_text[after + 1] \in {"}", " ", "\t", "\n"}

\* C22 (as claimed): an occurrence is flagged only if the character before
\* '.cb.' is '{', space, tab or newline and the character after the command
\* name is '}', space, tab or newline; an occurrence with no recognized
\* command, or not preceded by such a character, is never flagged.
C22_FlaggedOnlyWithCommand ==
    find_called =>
        \A k \in 1..Len(find_results) :
            find_results[k].maybe_codebraid_attr =>
                /\ Recognized(find_results[k])
                /\ PrecededByAttrChar(find_results[k])
                /\ FollowedByAttrChar(find_results[k])

\* C22 (amended): an occurrence is flagged exactly when at least 4
\* characters stand before it and the one immediately before '.cb.' is '{',
\* space, tab or newline, whether or not a command was recognized; a
\* recognized command always ends before '}', space, tab or newline.
C22_FlaggedByPrecedingChar ==
    find_called =>
        \A k \in 1..Len(find_results) :
            /\ find_results[k].maybe_codebraid_attr <=>
                  (find_results[k].index >= 4 /\ PrecededByAttrChar(find_results[k]))
            /\ Recognized(find_results[k]) => FollowedByAttrChar(find_results[k])

\* Reached: an occurrence after '{' whose command is recognized and ends
\* before '}', flagged.
C22_Witness ==
    /\ find_called
    /\ \E k \in 1..Len(find_results) :
          /\ find_results[k].maybe_codebraid_attr
          /\ find_results[k].command = <<"r", "u", "n">>
          /\ find_text[find_results[k].index] = "{"
          /\ find_text[find_results[k].index + 8] = "}"

\* ------------------------------------------------------- specifications
\* Every specification starts from the state after construction of all
\* components and steps one component, leaving the others alone.
Init ==
    HeapInit /\ WalkInit /\ FreezeInit /\ OptInit /\ SpliceInit /\ MatchInit /\ FindInit

NextWalk == WalkStep /\ UNCHANGED <<freezeVars, optVars, spliceVars, docVars, matchVars, findVars>>

SpecWalk == Init /\ [][NextWalk]_vars

NextFreeze == FreezeStep /\ UNCHANGED <<walkVars, optVars, spliceVars, docVars, matchVars, findVars>>

SpecFreeze == Init /\ [][NextFreeze]_vars

NextOptions == OptStep /\ UNCHANGED <<heapVars, walkVars, freezeVars, spliceVars, docVars, matchVars, findVars>>

SpecOptions == Init /\ [][NextOptions]_vars

NextAttrs == AttrStep /\ UNCHANGED <<heapVars, walkVars, freezeVars, spliceVars, docVars, matchVars, findVars>>

SpecAttrs == Init /\ [][NextAttrs]_vars

NextSplice == SpliceStep /\ UNCHANGED <<walkVars, freezeVars, optVars, docVars, matchVars, findVars>>

SpecSplice == Init /\ [][NextSplice]_vars

NextOutput == OutputStep /\ UNCHANGED <<walkVars, freezeVars, optVars, docVars, matchVars, findVars>>

SpecOutput == Init /\ [][NextOutput]_vars

NextMatch == MatchStep /\ UNCHANGED <<heapVars, walkVars, freezeVars, optVars, findVars>>

SpecMatch == Init /\ [][NextMatch]_vars

\* The steps of code_braid once the sources are given: a Python call that
\* has started runs on, so a step of the matcher that can be taken is taken.
MatcherRuns ==
    /\ LoadBegin \/ EqualChunk \/ EqualFreeze \/ DiffNode \/ LaterPhases
    /\ UNCHANGED <<heapVars, walkVars, freezeVars, optVars, findVars>>

SpecMatchFair == Init /\ [][NextMatch]_vars /\ WF_vars(MatcherRuns)

NextFind ==
    FindStep /\ UNCHANGED <<heapVars, walkVars, freezeVars, optVars, spliceVars, docVars, matchVars>>

SpecFind == Init /\ [][NextFind]_vars

====
